---- MODULE Spec2Model ----
(***************************************************************************)
(* Verification model of the course notebooks:                             *)
(*   - LQR tracking example                  (src/unnamed/part_000)        *)
(*   - frequency domain analysis             (src/unnamed/part_001)        *)
(*   - linear quadratic optimal control      (src/unnamed/part_001)        *)
(*   - stochastic response                   (src/unnamed/part_001)        *)
(*   - inverted pendulum dynamics            (src/examples/cds110-L2_...)  *)
(*                                                                         *)
(* One notebook is run per behaviour (variable nb); its cells run top to   *)
(* bottom (variable pc).  Real numbers are fixed point integers with       *)
(* S units per 1.0.  Library calls (ct.lqr, linearize, poles, zeros,       *)
(* nyquist_response, solve_ivp, ...) are modelled by what they compute.    *)
(***************************************************************************)
EXTENDS Integers, Sequences, FiniteSets, TLC

VARIABLES nb, pc,
          delta, U, simsys, x, z, xdot,
          kp, eqpt, lin, callparams,
          ws, out,
          hist,
          ip, env, unbound, assigned, control

lqrVars == <<delta, U, simsys, x, z, xdot>>
pendVars == <<kp, eqpt, lin, callparams>>
freqVars == <<ws, out>>
stochVars == <<hist>>
stmtVars == <<ip, env, unbound, assigned, control>>
vars == <<nb, pc, lqrVars, pendVars, freqVars, stochVars, stmtVars>>

\* Fixed point scale: S units per 1.0
S == 1000

Abs(a) == IF a < 0 THEN -a ELSE a
Sign(a) == IF a < 0 THEN -1 ELSE IF a > 0 THEN 1 ELSE 0

\* Largest r >= 0 with r * r <= n
ISqrt(n) == CHOOSE r \in 0..(5 * S) : r * r <= n /\ (r + 1) * (r + 1) > n

\* a / b rounded to the nearest integer (b > 0)
RDiv(a, b) == Sign(a) * ((2 * Abs(a) + b) \div (2 * b))

\* np.linspace(0, tf, n)
Linspace(tf, n) == [k \in 1..n |-> RDiv((k - 1) * tf, n - 1)]

\* Assignment name = v in the notebook's namespace
Bind(w, name, v) == (name :> v) @@ w

(***************************************************************************)
(* Counting roots of a real polynomial by half plane.  Polynomials are     *)
(* coefficient sequences, highest power first (numpy convention), of       *)
(* degree at most 3.                                                       *)
(***************************************************************************)

\* Drop leading zero coefficients
RECURSIVE Trim(_)
Trim(p) == IF Len(p) > 1 /\ p[1] = 0 THEN Trim(Tail(p)) ELSE p

Degree(p) == Len(Trim(p)) - 1

\* Number of roots at s = 0
RECURSIVE ZeroRoots(_)
ZeroRoots(p) ==
    IF Len(p) > 1 /\ p[Len(p)] = 0
        THEN 1 + ZeroRoots(SubSeq(p, 1, Len(p) - 1))
        ELSE 0

\* p(-s)
Reflect(p) == [i \in 1..Len(p) |->
                 IF (Len(p) - i) % 2 = 1 THEN -p[i] ELSE p[i]]

\* Number of roots with positive real part (Routh-Hurwitz)
RHPCount(p) ==
    LET t  == Trim(p)
        q  == SubSeq(t, 1, Len(t) - ZeroRoots(t))
        sg == Sign(q[1])
        a  == [i \in 1..Len(q) |-> sg * q[i]]
    IN  CASE Len(a) = 1 -> 0
          [] Len(a) = 2 -> IF a[2] < 0 THEN 1 ELSE 0
          [] Len(a) = 3 -> IF a[3] < 0 THEN 1
                           ELSE IF a[2] < 0 THEN 2 ELSE 0
          [] Len(a) = 4 ->
               IF a[4] > 0
                 THEN IF a[2] > 0 /\ a[3] > 0 /\ a[2] * a[3] >= a[1] * a[4]
                        THEN 0 ELSE 2
                 ELSE IF a[2] < 0 /\ a[3] > 0 /\ a[2] * a[3] < a[1] * a[4]
                        THEN 3 ELSE 1

\* Number of roots with negative real part
LHPCount(p) == RHPCount(Reflect(p))

\* Number of roots with real part >= 0
ClosedRHPCount(p) == Degree(p) - LHPCount(p)

(***************************************************************************)
(* LQR tracking notebook (src/unnamed/part_000)                            *)
(***************************************************************************)

\* sys = ct.ss([[0, 10], [-1, 0]], [[0], [1]], np.eye(2), 0)   (plain integers)
sys_A == <<<<0, 10>>, <<-1, 0>>>>
sys_B == <<0, 1>>

\* x0 = [2, 0], u0 = [2]   (fixed point)
x0 == <<2 * S, 0>>

\* Variant of u0: an input that does not hold x0
u0_Unbalanced == S

u0 == 2 * S

\* xd = x0, ud = u0
xd == x0
ud == u0

\* A x + B u for the two state, one input system (x, u and result in the
\* same fixed point unit)
LinUpdate(A, B, xx, uu) ==
    <<A[1][1] * xx[1] + A[1][2] * xx[2] + B[1] * uu,
      A[2][1] * xx[1] + A[2][2] * xx[2] + B[2] * uu>>

\* Stabilizing solution of the algebraic Riccati equation
\*   A'P + PA - P B B' P + Q = 0,  Q = I, R = 1
\* for A = [[0, a], [c, 0]], B = [0; 1], returned as the gain K = B'P =
\* [p12, p22] in fixed point:  p12^2 - 2 c p12 - 1 = 0,  p22^2 = 2 a p12 + 1.
AreGain(A) ==
    LET a == A[1][2]
        c == A[2][1]
        p12 == CHOOSE k \in 0..(5 * S) :
                   /\ k * k - 2 * c * k * S <= S * S
                   /\ (k + 1) * (k + 1) - 2 * c * (k + 1) * S > S * S
        p22 == ISqrt(2 * a * p12 * S + S * S)
    IN  <<p12, p22>>

\* K, _, _ = ct.lqr(sys, np.eye(sys.nstates), np.eye(sys.ninputs))
K == AreGain(sys_A)

\* Variant of C: integral action on x[1] instead of x[0]
C_WrongOutput == <<0, 1>>

\* C = np.array([[1, 0]])
C == <<1, 0>>

\* Stabilizing Riccati gain [p12, p22, p23] of the augmented system
\*   A_aug = [[A, 0], [C, 0]], B_aug = [B; 0], Q = diag(1, 1, 1), R = 1
\* with A = [[0, a], [c, 0]], C = [1, 0]:
\*   p23 = 1,  p22^2 = 2 a p12 + 1,
\*   p12^2 - 2 c p12 - 1 - 2 p22 / a = 0
AreGainAug(A) ==
    LET a == A[1][2]
        c == A[2][1]
        P12(k2) == (k2 * k2 - S * S) \div (2 * a * S)
        H(k2) == LET k1 == P12(k2)
                 IN  a * (k1 * k1 - 2 * c * k1 * S - S * S) - 2 * k2 * S
        p22 == CHOOSE k2 \in S..(5 * S) : H(k2) <= 0 /\ H(k2 + 1) > 0
    IN  <<P12(p22), p22, S>>

\* K_aug, _, _ = ct.lqr(A_aug, B_aug, np.diag([1, 1, 1]), np.eye(sys.ninputs))
K_aug == AreGainAug(sys_A)

\* Controller of create_statefbk_iosystem(sys, K): u = ud - K (x - xd).
\* UU = [xd[0], xd[1], ud]; the result is S times the control signal.
CtrlOutput(UU, xx) ==
    S * UU[3] - K[1] * (xx[1] - UU[1]) - K[2] * (xx[2] - UU[2])

\* Closed loop clsys: S times the state derivative at state xx, input UU
ClsysUpdate(UU, xx) ==
    LinUpdate(sys_A, sys_B, <<S * xx[1], S * xx[2]>>, CtrlOutput(UU, xx))

\* Integrator of create_statefbk_iosystem(sys, K_aug, integral_action=C):
\* dz/dt = C x - C xd = y - yd
IntegralUpdate(UU, xx) ==
    (C[1] * xx[1] + C[2] * xx[2]) - (C[1] * UU[1] + C[2] * UU[2])

\* u = ud - K (x - xd) - ki z with K_aug = [K, ki]; S times the signal
IntegralCtrlOutput(UU, xx, zz) ==
    S * UU[3] - K_aug[1] * (xx[1] - UU[1]) - K_aug[2] * (xx[2] - UU[2])
              - K_aug[3] * zz

\* Closed loop sys_integral: S times the derivative of [x[0], x[1], z]
SysIntegralUpdate(UU, xx, zz) ==
    LET dx == LinUpdate(sys_A, sys_B, <<S * xx[1], S * xx[2]>>,
                        IntegralCtrlOutput(UU, xx, zz))
    IN  <<dx[1], dx[2], S * IntegralUpdate(UU, xx)>>

\* Number of grid steps (of 1.0) on each side of xd for simulated states
GridSteps == 1

\* Largest disturbance, in units of (1 + K[0,0])
MaxDelta == 1

\* Constant disturbances: the notebook's delta = 0.5 and multiples of
\* (1 + K[0,0]), for which the equilibrium of clsys lies on the state grid
Deltas == {k * (S + K[1]) : k \in -MaxDelta..MaxDelta} \cup {S \div 2}

\* States at which the simulation evaluates the closed loop
XGrid == {<<xd[1] + i * S, xd[2] + j * S>> :
             i \in -GridSteps..GridSteps, j \in -GridSteps..GridSteps}

\* Integrator states: those at which the control signal balances the
\* disturbance d for a state error of i grid steps
ZGrid == {d - i * (S + K_aug[1]) :
             d \in Deltas, i \in -GridSteps..GridSteps}

\* Tf = 4
lqr_Tf == 4 * S

\* Number of points of tvec = np.linspace(0, Tf, 100)
TvecLen == 4

\* np.hstack([a, b]) of two one dimensional arrays
hstack(a, b) == a \o b

\* np.ones_like(t)
ones_like(t) == [j \in 1..Len(t) |-> 1]

\* np.outer(a, b): the array with rows a[i] * b
outer(a, b) == [i \in 1..Len(a) |-> [j \in 1..Len(b) |-> a[i] * b[j]]]

\* Variant of InputU: the disturbance is not added to ud
InputU_NoDisturbance(d) == <<xd[1], xd[2], ud>>

\* U = np.outer(np.hstack([xd, ud + delta]), np.ones_like(tvec)): every
\* column of U is this vector
InputU(d) == <<xd[1], xd[2], ud + d>>

LqrInit ==
    /\ delta = 0
    /\ U = InputU(0)
    /\ simsys = "none"
    /\ x = <<0, 0>>
    /\ z = 0
    /\ xdot = <<>>

\* cell b763b91b: step response of clsys with respect to (xd, ud)
Baseline ==
    /\ nb = "lqr_tracking" /\ pc = "design"
    /\ pc' = "baseline"
    /\ delta' = 0
    /\ U' = InputU(0)
    /\ \E tvec \in {Linspace(lqr_Tf, TvecLen)} :
         ws' = Bind(Bind(ws, "tvec", tvec),
                    "U", outer(hstack(xd, <<ud>>), ones_like(tvec)))
    /\ simsys' = "clsys"
    /\ x' = <<0, 0>> /\ z' = 0 /\ xdot' = <<>>
    /\ UNCHANGED <<nb, stmtVars, stochVars, pendVars, out>>

\* cell 1ecbb3a0: resimulate clsys with a disturbance input
Disturbance ==
    /\ nb = "lqr_tracking" /\ pc = "baseline"
    /\ pc' = "disturbance"
    /\ \E d \in Deltas :
         /\ delta' = d /\ U' = InputU(d)
         /\ ws' = Bind(ws, "U", outer(hstack(xd, <<ud + d>>),
                                      ones_like(ws["tvec"])))
    /\ simsys' = "clsys"
    /\ x' = <<0, 0>> /\ z' = 0 /\ xdot' = <<>>
    /\ UNCHANGED <<nb, stmtVars, stochVars, pendVars, out>>

\* cell e183a822: build sys_integral and resimulate with a disturbance
IntegralFeedback ==
    /\ nb = "lqr_tracking" /\ pc = "disturbance"
    /\ pc' = "integral"
    /\ \E d \in Deltas :
         /\ delta' = d /\ U' = InputU(d)
         /\ ws' = Bind(ws, "U", outer(hstack(xd, <<ud + d>>),
                                      ones_like(ws["tvec"])))
    /\ simsys' = "sys_integral"
    /\ x' = <<0, 0>> /\ z' = 0 /\ xdot' = <<>>
    /\ UNCHANGED <<nb, stmtVars, stochVars, pendVars, out>>

\* ct.input_output_response(clsys | sys_integral, tvec, U): the integrator
\* evaluates the closed loop right hand side at a state of the trajectory
SimEval ==
    /\ nb = "lqr_tracking" /\ simsys # "none"
    /\ \E xx \in XGrid, zz \in ZGrid :
          /\ x' = xx
          /\ IF simsys = "clsys"
                THEN z' = 0 /\ xdot' = ClsysUpdate(U, xx)
                ELSE z' = zz /\ xdot' = SysIntegralUpdate(U, xx, zz)
    /\ UNCHANGED <<nb, stmtVars, stochVars, pc, delta, U, simsys, pendVars, freqVars>>

LqrNext == Baseline \/ Disturbance \/ IntegralFeedback \/ SimEval

\* The state is an equilibrium of the simulated closed loop
AtEquilibrium == xdot # <<>> /\ \A i \in DOMAIN xdot : xdot[i] = 0

(***************************************************************************)
(* Dual numbers: a value together with its derivative along one direction  *)
(* of the linearization, [q, v, d] = q * (pi / 2) + v / S with derivative  *)
(* d / S.  linearize() differentiates the update function numerically     *)
(* at the operating point; the dual part is that derivative.               *)
(***************************************************************************)

\* pi / 2 in fixed point
HalfPi == 1571

Dual(q, v, d) == [q |-> q, v |-> v, d |-> d]
Const(v) == Dual(0, v, 0)

\* The number in radians (no quarter turn part)
ToReal(a) == Dual(0, a.q * HalfPi + a.v, a.d)

DAdd(a, b) == Dual(a.q + b.q, a.v + b.v, a.d + b.d)
DSub(a, b) == Dual(a.q - b.q, a.v - b.v, a.d - b.d)

\* c * a and a / c for a fixed point constant c
DScale(c, a) == LET r == ToReal(a)
                IN  Dual(0, RDiv(c * r.v, S), RDiv(c * r.d, S))
DDivC(a, c) == LET r == ToReal(a)
               IN  Dual(0, RDiv(r.v * S, c), RDiv(r.d * S, c))

\* np.clip(a, lo, hi)
DClip(a, lo, hi) ==
    LET r == ToReal(a)
    IN  IF r.v < lo THEN Const(lo)
        ELSE IF r.v >= hi THEN Const(hi)
        ELSE r

\* sin and cos at multiples of pi / 2
SinQ(q) == CASE q % 4 = 0 -> 0 [] q % 4 = 1 -> 1 [] q % 4 = 2 -> 0 [] q % 4 = 3 -> -1
CosQ(q) == SinQ(q + 1)

\* 15 degrees in radians: (15 / 180) * np.pi
Deg15 == RDiv(15 * 2 * HalfPi, 180)

\* sin and cos (fixed point) at the offsets 0, +-15 degrees, +-0.5 rad and
\* +-1 rad
SinTab(v) == CASE v = 0 -> 0
               [] Abs(v) = Deg15 -> Sign(v) * 259
               [] Abs(v) = S \div 2 -> Sign(v) * 479
               [] Abs(v) = S -> Sign(v) * 841
CosTab(v) == CASE v = 0 -> S
               [] Abs(v) = Deg15 -> 966
               [] Abs(v) = S \div 2 -> 878
               [] Abs(v) = S -> 540

\* np.sin(a): sin(q pi/2 + v) = sin(q pi/2) cos(v) + cos(q pi/2) sin(v)
DSin(a) ==
    Dual(0,
         SinQ(a.q) * CosTab(a.v) + CosQ(a.q) * SinTab(a.v),
         RDiv((CosQ(a.q) * CosTab(a.v) - SinQ(a.q) * SinTab(a.v)) * a.d, S))

(***************************************************************************)
(* Inverted pendulum notebook                                              *)
(* (src/examples/cds110-L2_invpend-dynamics.ipynb)                         *)
(***************************************************************************)

\* Merge of parameter dictionaries: over takes precedence
Merge(over, base) == over @@ base

\* params.get(name, default)
Get(params, name, default) ==
    IF name \in DOMAIN params THEN params[name] ELSE default

\* np.shape of each value of a parameter mapping: () for the Python
\* numbers, the array's shape for the entries named in arrays, which hold
\* NumPy arrays [shape, data]
ParamShapes(pars, arrays) ==
    [k \in DOMAIN pars |-> IF k \in arrays THEN pars[k].shape ELSE <<>>]

\* invpend_params = {'m': 1, 'l': 1, 'b': 0.5, 'g': 1}
invpend_params == [m |-> S, l |-> S, b |-> S \div 2, g |-> S]

\* Variant of invpend_update: gravity term with the sign of a hanging
\* pendulum
invpend_update_Hanging(xx, uu, params) ==
    LET m == params.m
        l == params.l
        b == params.b
        g == params.g
        umax == Get(params, "umax", S)
        usat == DClip(uu[1], -umax, umax)
    IN  <<xx[2],
          DAdd(DScale(-RDiv(b * S, m), xx[2]),
               DScale(-RDiv(RDiv(g * l, S) * S, m),
                      DSin(DAdd(xx[1], DDivC(usat, m)))))>>

\* def invpend_update(t, x, u, params)
invpend_update(xx, uu, params) ==
    LET m == params.m
        l == params.l
        b == params.b
        g == params.g
        umax == Get(params, "umax", S)
        usat == DClip(uu[1], -umax, umax)
    IN  <<xx[2],
          DAdd(DScale(-RDiv(b * S, m), xx[2]),
               DScale(RDiv(RDiv(g * l, S) * S, m),
                      DSin(DAdd(xx[1], DDivC(usat, m)))))>>

\* Variant of propctrl_output: positive feedback
propctrl_output_Positive(uu, params) ==
    LET kpv == Get(params, "kp", S)
    IN  DScale(kpv, DSub(uu[1], uu[2]))

\* def propctrl_output(t, x, u, params), u = [theta, r]
propctrl_output(uu, params) ==
    LET kpv == Get(params, "kp", S)
    IN  DScale(-kpv, DSub(uu[1], uu[2]))

\* clsys = ct.interconnect([invpend, propctrl], inputs=['r'],
\*     outputs=['theta', 'tau'], params={'kp': 1}):
\* tau = propctrl(theta, r), state derivative of invpend
clsys_params == Merge([kp |-> S], invpend_params)
clsys_update(xx, rr, params) ==
    invpend_update(xx, <<propctrl_output(<<xx[1], rr[1]>>, params)>>, params)

\* An angle of q quarter turns plus v (fixed point) radians
Theta(q, v) == [q |-> q, v |-> v]

\* Operating point with the derivative direction j (0: none, 1, 2: a state,
\* 3: the input); xe = [angle, angular velocity]
SeedX(xe, j) == <<Dual(xe[1].q, xe[1].v, IF j = 1 THEN S ELSE 0),
                  Dual(0, xe[2], IF j = 2 THEN S ELSE 0)>>
SeedU(ue, j) == <<Dual(0, ue[1], IF j = 3 THEN S ELSE 0)>>

\* servomech_params = {'J': 100, 'b': 10, 'k': 1, 'r': 1, 'l': 2, 'eps': 0.01}
\* (src/unnamed/part_001, frequency domain notebook)
servomech_params == [J |-> 100 * S, b |-> 10 * S, k |-> S, r |-> S,
                     l |-> 2 * S, eps |-> S \div 100]

\* def servomech_update(t, x, u, params)
servomech_update(xx, uu, params) ==
    LET theta == xx[1]
        thetadot == xx[2]
        tau == uu[1]
        J == params.J
        b == params.b
        k == params.k
        r == params.r
        dthetadot == DScale(RDiv(S * S, J),
                        DAdd(DSub(DScale(-b, thetadot),
                                  DScale(RDiv(k * r, S), DSin(theta))),
                             tau))
    IN  <<thetadot, dthetadot>>

\* def servomech_output(t, x, u, params)
servomech_output(xx, uu, params) ==
    LET l == params.l
    IN  <<DScale(l, xx[1])>>

\* The update function of a nonlinear system of the notebooks
Update(sysname, xx, uu, params) ==
    CASE sysname = "invpend" -> invpend_update(xx, uu, params)
      [] sysname = "clsys" -> clsys_update(xx, uu, params)
      [] sysname = "servomech" -> servomech_update(xx, uu, params)

\* The output function of a nonlinear system of the notebooks: invpend
\* outputs its states, clsys outputs ['theta', 'tau']
Output(sysname, xx, uu, params) ==
    CASE sysname = "invpend" -> xx
      [] sysname = "clsys" ->
            <<xx[1], propctrl_output(<<xx[1], uu[1]>>, params)>>
      [] sysname = "servomech" -> servomech_output(xx, uu, params)

\* sys.linearize(xe, ue, params=...): A[i][j] = d f_i / d x_j and
\* B[i] = d f_i / d u, with f the update function of the system
Linearize(sysname, xe, ue, params) ==
    [A |-> [i \in 1..2 |-> [j \in 1..2 |->
                Update(sysname, SeedX(xe, j), SeedU(ue, j), params)[i].d]],
     B |-> [i \in 1..2 |->
                Update(sysname, SeedX(xe, 3), SeedU(ue, 3), params)[i].d],
     C |-> [i \in DOMAIN Output(sysname, SeedX(xe, 0), SeedU(ue, 0), params)
             |-> [j \in 1..2 |->
                Output(sysname, SeedX(xe, j), SeedU(ue, j), params)[i].d]],
     D |-> [i \in DOMAIN Output(sysname, SeedX(xe, 0), SeedU(ue, 0), params)
             |-> Output(sysname, SeedX(xe, 3), SeedU(ue, 3), params)[i].d]]

\* Characteristic polynomial det(sI - A) of a linearization, scaled by S^2;
\* its roots are the poles
CharPoly(sysl) ==
    <<S * S,
      -(sysl.A[1][1] + sysl.A[2][2]) * S,
      sysl.A[1][1] * sysl.A[2][2] - sysl.A[1][2] * sysl.A[2][1]>>

\* for kp in [0, 1, 10]
KpList == <<0, S, 10 * S>>

\* Range of angles, in quarter turns, searched for equilibrium points:
\* the plot covers [-2 pi - 1, 2 pi + 1]
MaxQuarter == 4

PendInit ==
    /\ kp = -1
    /\ eqpt = <<>>
    /\ lin = <<>>
    /\ callparams = <<>>

\* cell phase_plane_plot(invpend, ...): the plot locates the equilibrium
\* points of the open loop system (tau = 0) and classifies each by its
\* linearization
OpenLoopPhasePlane ==
    /\ nb = "invpend" /\ pc \in {"model", "openloop"}
    /\ pc' = "openloop"
    /\ \E q \in -MaxQuarter..MaxQuarter :
          /\ LET f == invpend_update(SeedX(<<Theta(q, 0), 0>>, 0), SeedU(<<0>>, 0),
                                     invpend_params)
             IN  f[1].v = 0 /\ f[2].v = 0
          /\ eqpt' = <<q, 0>>
          /\ lin' = Linearize("invpend", <<Theta(q, 0), 0>>, <<0>>, invpend_params)
    /\ callparams' = ParamShapes(invpend_params, {})
    /\ UNCHANGED <<nb, stmtVars, stochVars, kp, lqrVars, freqVars>>

\* cell "for kp in [0, 1, 10]": one iteration,
\* clsys.linearize([0, 0], [0], params={'kp': kp}).poles()
ProportionalLinearize ==
    /\ nb = "invpend" /\ pc \in {"openloop", "kp1", "kp2"}
    /\ LET i == CASE pc = "openloop" -> 1 [] pc = "kp1" -> 2 [] pc = "kp2" -> 3
       IN  /\ kp' = KpList[i]
           /\ lin' = Linearize("clsys", <<Theta(0, 0), 0>>, <<0>>,
                               Merge([kp |-> KpList[i]], clsys_params))
           /\ callparams' = ParamShapes(Merge([kp |-> KpList[i]], clsys_params), {})
           /\ pc' = <<"kp1", "kp2", "kp3">>[i]
    /\ eqpt' = <<0, 0>>
    /\ UNCHANGED <<nb, stmtVars, stochVars, lqrVars, freqVars>>

\* The dynamics written in the notebook's system model, with Jt = m l^2:
\* d(theta)/dt = thdot, d(thdot)/dt = (m g l / Jt) sin(theta)
\*   - (b / Jt) thdot + (l / Jt) u cos(theta)
written_dynamics(xx, uu, params) ==
    LET m == params.m
        l == params.l
        b == params.b
        g == params.g
        Jt == RDiv(m * RDiv(l * l, S), S)
        costheta == DSin(DAdd(xx[1], Dual(1, 0, 0)))
    IN  <<xx[2],
          DAdd(DAdd(DScale(RDiv(RDiv(m * g, S) * l, Jt), DSin(xx[1])),
                    DScale(-RDiv(b * S, Jt), xx[2])),
               DScale(RDiv(l * S, Jt),
                      Const(RDiv(ToReal(uu[1]).v * costheta.v, S))))>>

\* States and inputs at which the simulator evaluates invpend
EvalOffsets == {0, S \div 2, -(S \div 2)}
EvalRates == {0, S, -2 * S}
EvalInputs == {0, S \div 2, -(S \div 2), S, -S, 2 * S}

\* invpend.dynamics(t, x, u): one evaluation of the update function, as
\* the phase plane plot of invpend makes; the angle offset and the
\* input are combined so that theta + usat / m stays on the sine table
InvpendEval ==
    /\ nb = "invpend" /\ pc = "openloop"
    /\ \E q \in -MaxQuarter..MaxQuarter : \E v \in EvalOffsets :
       \E w \in EvalRates : \E u \in EvalInputs :
         /\ (v = 0 \/ u = 0)
         /\ out' = [x  |-> <<Theta(q, v), w>>,
                    u  |-> <<u>>,
                    dx |-> LET f == invpend_update(SeedX(<<Theta(q, v), w>>, 0),
                                                   SeedU(<<u>>, 0),
                                                   invpend_params)
                           IN  <<ToReal(f[1]).v, ToReal(f[2]).v>>]
    /\ callparams' = ParamShapes(invpend_params, {})
    /\ UNCHANGED <<nb, stmtVars, pc, stochVars, lqrVars, kp, eqpt, lin, ws>>

\* cells ct.phase_plane_plot(clsys, ..., params={'kp': 10}) and
\* kp_params = {'kp': 10}; ct.phase_plane_plot(clsys, ..., params=kp_params):
\* the plot evaluates clsys with the override merged into its parameters
ClosedLoopPhasePlane ==
    /\ nb = "invpend" /\ pc \in {"kp3", "plane"}
    /\ LET kp_params == [kp |-> 10 * S]
       IN  /\ callparams' = ParamShapes(Merge(kp_params, clsys_params), {})
           /\ kp' = kp_params.kp
           /\ lin' = Linearize("clsys", <<Theta(0, 0), 0>>, <<0>>,
                               Merge(kp_params, clsys_params))
    /\ eqpt' = <<0, 0>>
    /\ pc' = "plane"
    /\ UNCHANGED <<nb, stmtVars, stochVars, lqrVars, freqVars>>

\* cell "for i, kp in enumerate([3, 10]): for j, umax in
\* enumerate([0.2, 1])": one phase plane plot with
\* params={'kp': kp, 'umax': umax}
ParameterSweep ==
    /\ nb = "invpend" /\ pc \in {"plane", "sweep"}
    /\ \E kpv \in {3 * S, 10 * S} : \E umax \in {S \div 5, S} :
         /\ callparams' = ParamShapes(Merge([kp |-> kpv, umax |-> umax],
                                              clsys_params), {})
         /\ kp' = kpv
         /\ lin' = Linearize("clsys", <<Theta(0, 0), 0>>, <<0>>,
                             Merge([kp |-> kpv, umax |-> umax], clsys_params))
    /\ eqpt' = <<0, 0>>
    /\ pc' = "sweep"
    /\ UNCHANGED <<nb, stmtVars, stochVars, lqrVars, freqVars>>

\* ct.place(A, B, poles) for a pair of complex poles re +- j im and a
\* system with A = [[0, a12], [a21, a22]], B = [0, b2]: the gain K, an
\* array of shape (1, 2), with
\* det(sI - A + B K) = s^2 - 2 re s + re^2 + im^2
place(A, B, re, im) ==
    LET c1 == -2 * re
        c0 == RDiv(re * re + im * im, S)
    IN  [shape |-> <<1, 2>>,
         data  |-> <<<<RDiv((RDiv(c0 * S, A[1][2]) + A[2][1]) * S, B[2]),
                       RDiv((c1 + A[2][2]) * S, B[2])>>>>]

\* cell: P = invpend.linearize([0, 0], [0]),
\* K = ct.place(P.A, P.B, [-1 + 0.1j, -1 - 0.1j])
PlacePoles ==
    /\ nb = "invpend" /\ pc = "sweep"
    /\ \E P \in {Linearize("invpend", <<Theta(0, 0), 0>>, <<0>>,
                           invpend_params)} :
         /\ callparams' = ParamShapes(invpend_params, {})
         /\ lin' = P
         /\ ws' = Bind(Bind(ws, "P", P), "K", place(P.A, P.B, -S, S \div 10))
    /\ eqpt' = <<0, 0>>
    /\ pc' = "place"
    /\ UNCHANGED <<nb, stmtVars, stochVars, lqrVars, kp, out>>

\* def statefbk_output(t, x, u, params),
\* u = [theta, thdot, theta_d, thdot_d]
\* K = params.get('K', np.array([0, 0])); return -K @ (u[0:2] - u[2:])
statefbk_output(uu, pars) ==
    LET Kv == Get(pars, "K", [shape |-> <<2>>, data |-> <<0, 0>>])
        row == IF Len(Kv.shape) = 2 THEN Kv.data[1] ELSE Kv.data
    IN  DAdd(DScale(-row[1], DSub(uu[1], uu[3])),
             DScale(-row[2], DSub(uu[2], uu[4])))

\* clsys_sf = ct.interconnect([invpend, statefbk],
\*     inputs=['theta_d', 'thdot_d'], outputs=['theta', 'tau'],
\*     params={'kp': 1})
clsys_sf_params == Merge([kp |-> S], invpend_params)
clsys_sf_update(xx, dd, pars) ==
    invpend_update(xx, <<statefbk_output(<<xx[1], xx[2], dd[1], dd[2]>>,
                                         pars)>>, pars)

\* State matrix of the linearization of clsys_sf at the state xe with
\* the inputs theta_d = thdot_d = 0
clsys_sf_A(xe, pars) ==
    [i \in 1..2 |-> [j \in 1..2 |->
        clsys_sf_update(SeedX(xe, j), <<Const(0), Const(0)>>, pars)[i].d]]

\* Variant of StateFeedback: an array in the parameters of the interconnect
StateFeedback_ArrayKp ==
    /\ nb = "invpend" /\ pc = "place"
    /\ ws' = Bind(ws, "clsys_sf",
                  [params |-> Merge([kp |-> [shape |-> <<1>>, data |-> <<S>>]],
                                    invpend_params)])
    /\ callparams' = ParamShapes(Merge([kp |-> [shape |-> <<1>>, data |-> <<S>>]],
                                      invpend_params), {"kp"})
    /\ pc' = "statefbk"
    /\ UNCHANGED <<nb, stmtVars, stochVars, lqrVars, kp, eqpt, lin, out>>

\* cells statefbk = ct.nlsys(None, statefbk_output, ...) and
\* clsys_sf = ct.interconnect(..., params={'kp': 1})
StateFeedback ==
    /\ nb = "invpend" /\ pc = "place"
    /\ ws' = Bind(ws, "clsys_sf", [params |-> clsys_sf_params])
    /\ callparams' = ParamShapes(clsys_sf_params, {})
    /\ pc' = "statefbk"
    /\ UNCHANGED <<nb, stmtVars, stochVars, lqrVars, kp, eqpt, lin, out>>

\* cell ct.phase_plane_plot(clsys_sf, ..., params={'K': K})
StateFeedbackPhasePlane ==
    /\ nb = "invpend" /\ pc = "statefbk"
    /\ \E pars \in {Merge([K |-> ws["K"]], ws["clsys_sf"].params)} :
         /\ callparams' = ParamShapes(pars, {"K"})
         /\ lin' = [A |-> clsys_sf_A(<<Theta(0, 0), 0>>, pars)]
    /\ eqpt' = <<0, 0>>
    /\ pc' = "sfplane"
    /\ UNCHANGED <<nb, stmtVars, stochVars, lqrVars, kp, freqVars>>

PendNext == \/ OpenLoopPhasePlane \/ ProportionalLinearize \/ InvpendEval
            \/ ClosedLoopPhasePlane \/ ParameterSweep \/ PlacePoles
            \/ StateFeedback \/ StateFeedbackPhasePlane

(***************************************************************************)
(* Transfer functions: [num, den], polynomials with integer coefficients,  *)
(* highest power first, reduced by the common factor of all coefficients.  *)
(***************************************************************************)

RECURSIVE Gcd(_, _)
Gcd(a, b) == IF b = 0 THEN Abs(a) ELSE Gcd(b, a % b)

RECURSIVE PolyGcd(_)
PolyGcd(p) == IF Len(p) = 0 THEN 0 ELSE Gcd(p[1], PolyGcd(Tail(p)))

\* Coefficient of s^k of p (0 outside the polynomial)
Coef(p, k) == IF k >= 0 /\ k < Len(p) THEN p[Len(p) - k] ELSE 0

PolyAdd(p, q) ==
    LET n == IF Len(p) > Len(q) THEN Len(p) ELSE Len(q)
    IN  Trim([i \in 1..n |-> Coef(p, n - i) + Coef(q, n - i)])

RECURSIVE ConvSum(_, _, _, _)
ConvSum(p, q, k, i) ==
    IF i < 0 THEN 0 ELSE Coef(p, i) * Coef(q, k - i) + ConvSum(p, q, k, i - 1)

PolyMul(p, q) ==
    LET n == Len(p) + Len(q) - 1
    IN  Trim([i \in 1..n |-> ConvSum(p, q, n - i, n - i)])

\* ct.tf(num, den)
Tf(num, den) ==
    LET g == Gcd(PolyGcd(num), PolyGcd(den))
        sg == Sign(Trim(den)[1])
    IN  [num |-> Trim([i \in 1..Len(num) |-> sg * (num[i] \div g)]),
         den |-> Trim([i \in 1..Len(den) |-> sg * (den[i] \div g)])]

\* A constant (fixed point) as a transfer function, and s = ct.tf('s')
TfConst(c) == Tf(<<c>>, <<S>>)
TfS == Tf(<<1, 0>>, <<1>>)

TfMul(a, b) == Tf(PolyMul(a.num, b.num), PolyMul(a.den, b.den))
TfDiv(a, b) == Tf(PolyMul(a.num, b.den), PolyMul(a.den, b.num))
TfAdd(a, b) == Tf(PolyAdd(PolyMul(a.num, b.den), PolyMul(b.num, a.den)),
                  PolyMul(a.den, b.den))

\* ct.feedback(L): L / (1 + L)
Feedback(L) == Tf(L.num, PolyAdd(L.den, L.num))

\* ct.tf(P) for a two state, single input linearization P, first output:
\* C adj(sI - A) B / det(sI - A) + D
Ss2Tf(P) ==
    LET a == P.A
        b == P.B
        c == P.C[1]
        n1 == c[1] * b[1] + c[2] * b[2]
        n0 == c[1] * RDiv(a[1][2] * b[2] - a[2][2] * b[1], S)
              + c[2] * RDiv(a[2][1] * b[1] - a[1][1] * b[2], S)
        den == <<S * S,
                 -(a[1][1] + a[2][2]) * S,
                 RDiv(a[1][1] * a[2][2] - a[1][2] * a[2][1], 1)>>
    IN  TfAdd(Tf(<<n1, n0>>, den), TfConst(P.D[1]))

\* A system as a transfer function: state space systems are converted
AsTf(sys) == IF "A" \in DOMAIN sys THEN Ss2Tf(sys) ELSE sys

(***************************************************************************)
(* Nyquist response: encirclements of -1 by L along the D contour, counted *)
(* from the phase of 1 + L = (num + den) / den sampled along the positive  *)
(* imaginary axis, as nyquist_response does.  Poles of L at the origin are *)
(* passed on a small indentation to their right.                           *)
(***************************************************************************)

\* The squared frequencies sampled are 2^e for e in -FreqExp..FreqExp
FreqExp == 10

RECURSIVE Pow2(_)
Pow2(e) == IF e = 0 THEN 1 ELSE 2 * Pow2(e - 1)

\* Sample i: omega^2 = nn / dd; sample 0 is omega = 0
NumSamples == 2 * FreqExp + 1
OmegaSq(i) ==
    LET e == i - 1 - FreqExp
    IN  IF i = 0 THEN <<0, 1>>
        ELSE IF e >= 0 THEN <<Pow2(e), 1>> ELSE <<1, Pow2(-e)>>

\* Sector of p(j omega), p of degree at most 3: 0, 2, 4, 6 are the
\* half axes +Re, +Im, -Re, -Im and 1, 3, 5, 7 the open quadrants between
Sector(p, i) ==
    LET w  == OmegaSq(i)
        re == Sign(Coef(p, 0) * w[2] - Coef(p, 2) * w[1])
        im == IF i = 0 THEN 0
              ELSE Sign(Coef(p, 1) * w[2] - Coef(p, 3) * w[1])
    IN  CASE re > 0 /\ im = 0 -> 0
          [] re > 0 /\ im > 0 -> 1
          [] re = 0 /\ im > 0 -> 2
          [] re < 0 /\ im > 0 -> 3
          [] re < 0 /\ im = 0 -> 4
          [] re < 0 /\ im < 0 -> 5
          [] re = 0 /\ im < 0 -> 6
          [] re > 0 /\ im < 0 -> 7

\* Counterclockwise phase change between two consecutive samples, in
\* eighths of a turn; a jump of half a turn cannot be unwrapped
SectorStep(s1, s2) ==
    LET d == ((s2 - s1 + 12) % 8) - 4
    IN  CASE d > -4 -> d

\* np.unwrap: phase change of p(j omega) from sample 0 to sample i
RECURSIVE PhaseChange(_, _)
PhaseChange(p, i) ==
    IF i = 0 THEN 0
    ELSE PhaseChange(p, i - 1) + SectorStep(Sector(p, i - 1), Sector(p, i))

\* ct.nyquist_response(L).count: clockwise encirclements of -1
NyquistCount(L) ==
    LET num1 == PolyAdd(L.num, L.den)
        r    == ZeroRoots(L.den)
        dent == SubSeq(L.den, 1, Len(L.den) - r)
        e    == PhaseChange(num1, NumSamples)
                  - (2 * r + PhaseChange(dent, NumSamples))
    IN  - RDiv(e, 4)

(***************************************************************************)
(* Frequency domain notebook (src/unnamed/part_001, lines 1..856)          *)
(***************************************************************************)

FreqInit ==
    /\ ws = <<>>
    /\ out = <<>>

\* cell senior-carpet: linearize servomech about theta_e = 15 degrees
FreqLinearize ==
    /\ nb = "frequency" /\ pc = "servomech"
    /\ pc' = "linearized"
    /\ LET theta_e == Deg15
           u_e == RDiv(RDiv(servomech_params.k * servomech_params.r, S)
                         * DSin(Dual(0, theta_e, 0)).v, S)
           P == Linearize("servomech", <<Theta(0, theta_e), 0>>, <<u_e>>,
                          servomech_params)
       IN  ws' = Bind(Bind(Bind(Bind(ws, "theta_e", theta_e), "u_e", u_e),
                           "P", P), "P_tf", Ss2Tf(P))
    /\ UNCHANGED <<nb, stmtVars, stochVars, out, lqrVars, pendVars>>

\* Variant of FreqPI: ki = 0.005
FreqPI_SmallKi ==
    /\ nb = "frequency" /\ pc = "linearized"
    /\ pc' = "pi"
    /\ LET kpv == S
           kiv == S \div 200
           C1 == Tf(<<kpv, kiv>>, <<S, 0>>)
           w1 == Bind(Bind(Bind(Bind(ws, "kp", kpv), "ki", kiv), "C", C1),
                      "s", TfS)
       IN  ws' = Bind(w1, "C", TfAdd(TfConst(w1["kp"]),
                                     TfDiv(TfConst(w1["ki"]), w1["s"])))
    /\ UNCHANGED <<nb, stmtVars, stochVars, out, lqrVars, pendVars>>

\* cell 8NK8O6XT7B_a: kp = 1, ki = 1, C = ct.tf([kp, ki], [1, 0]),
\* s = ct.tf('s'), C = ct.tf(kp + ki/s)
FreqPI ==
    /\ nb = "frequency" /\ pc = "linearized"
    /\ pc' = "pi"
    /\ LET kpv == S
           kiv == S
           C1 == Tf(<<kpv, kiv>>, <<S, 0>>)
           w1 == Bind(Bind(Bind(Bind(ws, "kp", kpv), "ki", kiv), "C", C1),
                      "s", TfS)
       IN  ws' = Bind(w1, "C", TfAdd(TfConst(w1["kp"]),
                                     TfDiv(TfConst(w1["ki"]), w1["s"])))
    /\ UNCHANGED <<nb, stmtVars, stochVars, out, lqrVars, pendVars>>

\* cell 074427a3: L = P * C
FreqLoop ==
    /\ nb = "frequency" /\ pc = "pi"
    /\ pc' = "loop"
    /\ ws' = Bind(ws, "L", TfMul(AsTf(ws["P"]), ws["C"]))
    /\ UNCHANGED <<nb, stmtVars, stochVars, out, lqrVars, pendVars>>

\* cell K7ifUBL0Z3xN: nyqresp = ct.nyquist_response(L); print N, P and Z
\* (np.real(...) > 0); T = ct.feedback(L)
FreqNyquist ==
    /\ nb = "frequency" /\ pc = "loop"
    /\ pc' = "nyquist"
    /\ LET L == ws["L"]
           count == NyquistCount(L)
       IN  /\ out' = [N |-> count,
                      P |-> RHPCount(L.den),
                      Z |-> RHPCount(TfAdd(TfConst(S), L).num)]
           /\ ws' = Bind(Bind(ws, "nyqresp", [count |-> count]),
                         "T", Feedback(L))
    /\ UNCHANGED <<nb, stmtVars, stochVars, lqrVars, pendVars>>

\* Variant of FreqSecond: the integral gain is not reduced
FreqSecond_SameKi ==
    /\ nb = "frequency" /\ pc = "nyquist"
    /\ pc' = "second"
    /\ LET Cnew == TfAdd(TfConst(ws["kp"]),
                         TfDiv(TfConst(ws["ki"]), ws["s"]))
           Lnew == TfMul(AsTf(ws["P"]), Cnew)
       IN  /\ ws' = Bind(Bind(ws, "Cnew", Cnew), "Lnew", Lnew)
           /\ out' = [N |-> NyquistCount(Lnew)]
    /\ UNCHANGED <<nb, stmtVars, stochVars, lqrVars, pendVars>>

\* cell YsM8SnXz_Kaj: Cnew = ct.tf(kp + (ki/200)/s), Lnew = ct.tf(P * Cnew),
\* ct.nyquist_plot(Lnew) draws the Nyquist response of Lnew
FreqSecond ==
    /\ nb = "frequency" /\ pc = "nyquist"
    /\ pc' = "second"
    /\ LET Cnew == TfAdd(TfConst(ws["kp"]),
                         TfDiv(TfConst(RDiv(ws["ki"], 200)), ws["s"]))
           Lnew == TfMul(AsTf(ws["P"]), Cnew)
       IN  /\ ws' = Bind(Bind(ws, "Cnew", Cnew), "Lnew", Lnew)
           /\ out' = [N |-> NyquistCount(Lnew)]
    /\ UNCHANGED <<nb, stmtVars, stochVars, lqrVars, pendVars>>

\* cell GGfJwG716jU2: Tnew = ct.feedback(Lnew)
FreqTnew ==
    /\ nb = "frequency" /\ pc = "second"
    /\ pc' = "tnew"
    /\ ws' = Bind(ws, "Tnew", Feedback(ws["Lnew"]))
    /\ UNCHANGED <<nb, stmtVars, stochVars, out, lqrVars, pendVars>>

\* cells e6da93a4, d731f372: loop shaping with a PID controller
FreqShape ==
    /\ nb = "frequency" /\ pc = "tnew"
    /\ pc' = "shape"
    /\ LET Td == S
           Ti == RDiv(Td * 5 * S, S)
           kpv == 150 * S
           kiv == RDiv(kpv * S, Ti)
           kdv == RDiv(kpv * Td, S)
           ctrl_shape == TfAdd(TfAdd(TfConst(kpv),
                                     TfDiv(TfConst(kiv), ws["s"])),
                               TfMul(TfConst(kdv), ws["s"]))
           ltf_shape == TfMul(ws["P_tf"], ctrl_shape)
           w1 == Bind(Bind(Bind(Bind(Bind(ws, "Td", Td), "Ti", Ti),
                                "kp", kpv), "ki", kiv), "kd", kdv)
       IN  ws' = Bind(Bind(Bind(w1, "ctrl_shape", ctrl_shape),
                           "ltf_shape", ltf_shape),
                      "T_shape", Feedback(ltf_shape))
    /\ UNCHANGED <<nb, stmtVars, stochVars, out, lqrVars, pendVars>>

\* cell ZbPzrlPIrHnp: P = ct.tf([1], [1, 0.1, -1])
FreqPend ==
    /\ nb = "frequency" /\ pc = "shape"
    /\ pc' = "pend"
    /\ ws' = Bind(ws, "P", Tf(<<S>>, <<S, S \div 10, -S>>))
    /\ UNCHANGED <<nb, stmtVars, stochVars, out, lqrVars, pendVars>>

\* Variant of FreqPD: kp = 0.5, below the gain that balances the pendulum
FreqPD_LowGain ==
    /\ nb = "frequency" /\ pc = "pend"
    /\ pc' = "pd"
    /\ LET kpv == S \div 2
           kdv == 2 * S
           C1 == Tf(<<kdv, kpv>>, <<S>>)
       IN  ws' = Bind(Bind(Bind(Bind(ws, "kp", kpv), "kd", kdv), "C", C1),
                      "L", TfMul(AsTf(ws["P"]), C1))
    /\ UNCHANGED <<nb, stmtVars, stochVars, out, lqrVars, pendVars>>

\* cell hjQS_dED7yJE: kp = 10, kd = 2, C = ct.tf([kd, kp], [1]), L = P * C
FreqPD ==
    /\ nb = "frequency" /\ pc = "pend"
    /\ pc' = "pd"
    /\ LET kpv == 10 * S
           kdv == 2 * S
           C1 == Tf(<<kdv, kpv>>, <<S>>)
       IN  ws' = Bind(Bind(Bind(Bind(ws, "kp", kpv), "kd", kdv), "C", C1),
                      "L", TfMul(AsTf(ws["P"]), C1))
    /\ UNCHANGED <<nb, stmtVars, stochVars, out, lqrVars, pendVars>>

\* cell 8dH03kv9-Da8: check the Nyquist criterion; print N, P
\* (np.real(L.poles()) > 0) and Z (np.real((1 + L).zeros()) >= 0);
\* T = ct.feedback(L)
FreqNyquistPend ==
    /\ nb = "frequency" /\ pc = "pd"
    /\ pc' = "nyquist_pend"
    /\ LET L == ws["L"]
           count == NyquistCount(L)
       IN  /\ out' = [N |-> count,
                      P |-> RHPCount(L.den),
                      Z |-> ClosedRHPCount(TfAdd(TfConst(S), L).num)]
           /\ ws' = Bind(Bind(ws, "nyqresp", [count |-> count]),
                         "T", Feedback(L))
    /\ UNCHANGED <<nb, stmtVars, stochVars, lqrVars, pendVars>>

FreqNext ==
    \/ FreqLinearize \/ FreqPI \/ FreqLoop \/ FreqNyquist \/ FreqSecond
    \/ FreqTnew \/ FreqShape \/ FreqPend \/ FreqPD \/ FreqNyquistPend

(***************************************************************************)
(* Linear quadratic optimal control notebook (src/unnamed/part_001)        *)
(***************************************************************************)

\* Matrices are sequences of rows
Diag(d) == [i \in 1..Len(d) |-> [j \in 1..Len(d) |-> IF i = j THEN d[i] ELSE 0]]
Transpose(X) == [j \in 1..Len(X[1]) |-> [i \in 1..Len(X) |-> X[i][j]]]

RECURSIVE DotSum(_, _, _)
DotSum(r, c, n) == IF n = 0 THEN 0 ELSE DotSum(r, c, n - 1) + r[n] * c[n]

\* X @ Y
MatMul(X, Y) ==
    LET Yt == Transpose(Y)
    IN  [i \in 1..Len(X) |->
            [j \in 1..Len(Yt) |-> RDiv(DotSum(X[i], Yt[j], Len(Yt[j])), S)]]

MatAdd(X, Y) == [i \in 1..Len(X) |-> [j \in 1..Len(X[1]) |-> X[i][j] + Y[i][j]]]
MatSub(X, Y) == [i \in 1..Len(X) |-> [j \in 1..Len(X[1]) |-> X[i][j] - Y[i][j]]]

\* np.linalg.inv of a diagonal matrix
InvDiag(X) == Diag([i \in 1..Len(X) |-> RDiv(S * S, X[i][i])])

\* np.reshape(P, (-1)): rows one after the other
Flatten(P) ==
    LET n == Len(P[1])
    IN  [k \in 1..(Len(P) * n) |-> P[((k - 1) \div n) + 1][((k - 1) % n) + 1]]

\* np.reshape(v, (n, n))
Reshape(v, n) == [i \in 1..n |-> [j \in 1..n |-> v[(i - 1) * n + j]]]

\* seq[::-1]
Reverse(seq) == [k \in 1..Len(seq) |-> seq[Len(seq) + 1 - k]]

lq_x0 == <<-40 * S, -2 * S, 0>>
lq_u0 == <<10 * S, 0>>
lq_Tf == 4 * S

\* kincar.linearize(x0, u0) with wheelbase b = 3: the Jacobians of
\* [cos(x[2]) u[0], sin(x[2]) u[0], (u[0] / b) tan(u[1])] at theta = 0,
\* v = 10, delta = 0
kincar_linearize(xe, ue) ==
    [A |-> <<<<0, 0, 0>>, <<0, 0, ue[1]>>, <<0, 0, 0>>>>,
     B |-> <<<<S, 0>>, <<0, 0>>, <<0, RDiv(ue[1], 3)>>>>,
     nstates |-> 3]

Qx == Diag(<<S, S, S>>)
Qu == Diag(<<S, S>>)
Pf == Diag(<<S, S, S>>)

\* Right hand side of the Riccati equation in reversed time
Pdot_reverse(sys, t, xv) ==
    LET P == Reshape(xv, sys.nstates)
        Prhs == MatSub(
                  MatAdd(MatAdd(MatMul(P, sys.A), MatMul(Transpose(sys.A), P)),
                         Qx),
                  MatMul(MatMul(MatMul(MatMul(P, sys.B), InvDiag(Qu)),
                                Transpose(sys.B)), P))
    IN  Flatten(Prhs)

\* Candidate sample times of the integrator: tf / 2^k, k = 1..MaxHalvings
\* (the adaptive steps grow as the solution settles)
MaxHalvings == 3

\* Euler step used to advance the solution between two samples
SubStep == S \div 20

Min(a, b) == IF a < b THEN a ELSE b

RECURSIVE Ascending(_)
Ascending(set) ==
    IF set = {} THEN <<>>
    ELSE LET m == CHOOSE a \in set : \A b \in set : a <= b
         IN  <<m>> \o Ascending(set \ {m})

\* The time grids solve_ivp may return for t_span = (0, tf): increasing,
\* first sample at 0, last sample at tf
TimeGrids(tf) ==
    LET inner == {tf \div Pow2(k) : k \in 1..MaxHalvings}
    IN  {Ascending(sub \cup {0, tf}) : sub \in SUBSET inner}

\* The first n components of y + d * f
RECURSIVE EulerStep(_, _, _, _)
EulerStep(y, f, d, n) ==
    IF n = 0 THEN <<>>
    ELSE Append(EulerStep(y, f, d, n - 1), y[n] + RDiv(d * f[n], S))

\* Euler integration of Pdot_reverse from t to t + h in steps of at most
\* SubStep, the first half of the interval before the second
RECURSIVE Integrate(_, _, _, _)
Integrate(sys, t, y, h) ==
    IF Len(y) = 0 \/ h = 0 THEN y
    ELSE IF h <= SubStep
         THEN EulerStep(y, Pdot_reverse(sys, t, y), h, Len(y))
         ELSE LET h1 == SubStep * ((h \div SubStep + 1) \div 2)
              IN  Integrate(sys, t + h1, Integrate(sys, t, y, h1), h - h1)

RECURSIVE Samples(_, _, _, _)
Samples(sys, grid, y0, n) ==
    IF n = 1 THEN <<y0>>
    ELSE LET prev == Samples(sys, grid, y0, n - 1)
         IN  Append(prev, Integrate(sys, grid[n - 1], prev[n - 1],
                                    grid[n] - grid[n - 1]))

\* sp.integrate.solve_ivp(Pdot_reverse, (0, tf), y0) on a time grid:
\* t has shape (nt), y has shape (len(y0), nt)
solve_ivp(sys, grid, y0) ==
    LET ys == Samples(sys, grid, y0, Len(grid))
    IN  [t |-> grid,
         y |-> [r \in 1..Len(y0) |-> [k \in 1..Len(grid) |-> ys[k][r]]]]

\* np.reshape(y, (n, n, -1)) of an array of shape (n * n, nt)
Reshape3(y, n) ==
    LET nt   == Len(y[1])
        flat == Flatten(y)
    IN  [i \in 1..n |-> [j \in 1..n |-> [k \in 1..nt |->
            flat[(i - 1) * n * nt + (j - 1) * nt + k]]]]

\* X[:, :, k]
Slice(X, k) == [i \in 1..Len(X) |-> [j \in 1..Len(X[1]) |-> X[i][j][k]]]

\* cell de9d85f3: x0, u0, Tf, sys = kincar.linearize(x0, u0)
LqLinearize ==
    /\ nb = "lq_optimal" /\ pc = "linearize"
    /\ ws' = Bind(Bind(Bind(Bind(ws, "x0", lq_x0), "u0", lq_u0), "Tf", lq_Tf),
                  "sys", kincar_linearize(lq_x0, lq_u0))
    /\ pc' = "costs"
    /\ UNCHANGED <<nb, stmtVars, stochVars, lqrVars, pendVars, out>>

\* cell 02e9f87c: Qx, Qu, Pf
LqCosts ==
    /\ nb = "lq_optimal" /\ pc = "costs"
    /\ ws' = Bind(Bind(Bind(ws, "Qx", Qx), "Qu", Qu), "Pf", Pf)
    /\ pc' = "riccati"
    /\ UNCHANGED <<nb, stmtVars, stochVars, lqrVars, pendVars, out>>

\* Variant of LqRiccati: the times are reversed, the samples are not
LqRiccati_TimesOnly ==
    /\ nb = "lq_optimal" /\ pc = "riccati"
    /\ \E grid \in TimeGrids(ws["Tf"]) :
       \E P0 \in {Flatten(ws["Pf"])} :
       \E Psol \in {solve_ivp(ws["sys"], grid, P0)} :
       \E Pfwd \in {Reshape3(Psol.y, ws["sys"].nstates)} :
       \E Prev \in {Pfwd} :
       \E trev \in {[k \in 1..Len(Psol.t) |-> ws["Tf"] - Reverse(Psol.t)[k]]} :
         /\ ws' = Bind(Bind(Bind(Bind(Bind(ws, "P0", P0), "Psol", Psol),
                                 "Pfwd", Pfwd), "Prev", Prev), "trev", trev)
         /\ out' = [Trange |-> <<trev[1], trev[Len(trev)]>>,
                    PTf |-> Slice(Prev, Len(trev)), P0 |-> Slice(Prev, 1)]
    /\ pc' = "reordered"
    /\ UNCHANGED <<nb, stmtVars, stochVars, lqrVars, pendVars>>

\* cell 02d74789: P0 = np.reshape(Pf, (-1)),
\* Psol = solve_ivp(Pdot_reverse, (0, Tf), P0), Pfwd = np.reshape(Psol.y,
\* (n, n, -1)), Prev = Pfwd[:, :, ::-1], trev = Tf - Psol.t[::-1]; print
\* trev[0], trev[-1], Prev[:, :, -1] and Prev[:, :, 0]
LqRiccati ==
    /\ nb = "lq_optimal" /\ pc = "riccati"
    /\ \E grid \in TimeGrids(ws["Tf"]) :
       \E P0 \in {Flatten(ws["Pf"])} :
       \E Psol \in {solve_ivp(ws["sys"], grid, P0)} :
       \E Pfwd \in {Reshape3(Psol.y, ws["sys"].nstates)} :
       \E Prev \in {[i \in 1..Len(Pfwd) |->
                        [j \in 1..Len(Pfwd[1]) |-> Reverse(Pfwd[i][j])]]} :
       \E trev \in {[k \in 1..Len(Psol.t) |-> ws["Tf"] - Reverse(Psol.t)[k]]} :
         /\ ws' = Bind(Bind(Bind(Bind(Bind(ws, "P0", P0), "Psol", Psol),
                                 "Pfwd", Pfwd), "Prev", Prev), "trev", trev)
         /\ out' = [Trange |-> <<trev[1], trev[Len(trev)]>>,
                    PTf |-> Slice(Prev, Len(trev)), P0 |-> Slice(Prev, 1)]
    /\ pc' = "reordered"
    /\ UNCHANGED <<nb, stmtVars, stochVars, lqrVars, pendVars>>

LqNext == LqLinearize \/ LqCosts \/ LqRiccati

(***************************************************************************)
(* Stochastic response notebook (src/unnamed/part_001)                     *)
(***************************************************************************)

\* Number of time samples (np.linspace(0, Tf, 1000) in the notebook)
TimeLen == 3

\* for i in range(100)
NumRuns == 100

stoch_Tf == 5 * S

\* ct.white_noise(T, Q): the signals a draw may return
white_noise(T) ==
    {[k \in 1..Len(T) |-> S \div 10],
     [k \in 1..Len(T) |-> IF k % 2 = 1 THEN S \div 10 ELSE -(S \div 10)]}

\* State of sys = c / (s + a) driven by V from rest, at the first n times
RECURSIVE StateResponse(_, _, _, _)
StateResponse(sys, T, V, n) ==
    IF n = 1 THEN <<0>>
    ELSE LET X  == StateResponse(sys, T, V, n - 1)
             dt == T[n] - T[n - 1]
         IN  Append(X, X[n - 1]
                       + RDiv(dt * (V[n - 1] - RDiv(sys.a * X[n - 1], S)), S))

\* ct.forced_response(sys, T, V): the output Y = c X
forced_response(sys, T, V) ==
    LET X == StateResponse(sys, T, V, Len(T))
    IN  [k \in 1..Len(T) |-> RDiv(sys.c * X[k], S)]

RECURSIVE LagSum(_, _, _)
LagSum(Y, lag, k) ==
    IF k = 0 THEN 0
    ELSE LagSum(Y, lag, k - 1)
           + (IF k + lag \in 1..Len(Y) THEN RDiv(Y[k] * Y[k + lag], S) ELSE 0)

\* ct.correlation(T, Y): sp.signal.correlate(Y, Y) * dt / Tf on the lags
\* -(n - 1) .. n - 1
correlation(T, Y) ==
    LET n  == Len(Y)
        dt == T[2] - T[1]
    IN  [j \in 1..(2 * n - 1) |->
            RDiv(LagSum(Y, j - n, n) * dt, T[n] - T[1])]

\* np.zeros_like(v)
zeros_like(v) == [j \in 1..Len(v) |-> 0]

\* An array of quotients num[j] / den
Ratio(num, den) == [num |-> num, den |-> den]

StochInit == hist = <<>>

\* cell: a = 1, c = 1, sys = ct.tf(c, [1, a]), Tf = 5,
\* T = np.linspace(0, Tf, 1000), dt, Q, V = ct.white_noise(T, Q)
StochSetup ==
    /\ nb = "stochastic" /\ pc = "first_order"
    /\ \E T \in {Linspace(stoch_Tf, TimeLen)} : \E V \in white_noise(T) :
         ws' = Bind(Bind(Bind(Bind(Bind(ws,
                 "sys", [a |-> S, c |-> S]), "Tf", stoch_Tf), "T", T),
                 "dt", T[2] - T[1]), "V", V)
    /\ pc' = "response"
    /\ UNCHANGED <<nb, stmtVars, stochVars, lqrVars, pendVars, out>>

\* cell: T, Y = ct.forced_response(sys, T, V)
StochResponse ==
    /\ nb = "stochastic" /\ pc = "response"
    /\ \E Y \in {forced_response(ws["sys"], ws["T"], ws["V"])} :
         ws' = Bind(ws, "Y", Y)
    /\ pc' = "correlation"
    /\ UNCHANGED <<nb, stmtVars, stochVars, lqrVars, pendVars, out>>

\* cells: tau, r_V = ct.correlation(T, V); tau, r_Y = ct.correlation(T, Y)
StochCorrelation ==
    /\ nb = "stochastic" /\ pc = "correlation"
    /\ \E r_V \in {correlation(ws["T"], ws["V"])} :
       \E r_Y \in {correlation(ws["T"], ws["Y"])} :
         ws' = Bind(Bind(ws, "r_V", r_V), "r_Y", r_Y)
    /\ pc' = "average"
    /\ UNCHANGED <<nb, stmtVars, stochVars, lqrVars, pendVars, out>>

\* cell bd5dfc75, before the loop: r_avg = np.zeros_like(r_Y)
StochAvgStart ==
    /\ nb = "stochastic" /\ pc = "average"
    /\ ws' = Bind(ws, "r_avg", Ratio(zeros_like(ws["r_Y"]), 1))
    /\ hist' = [n |-> 0, sum |-> zeros_like(ws["r_Y"])]
    /\ pc' = "avg_loop"
    /\ UNCHANGED <<nb, stmtVars, lqrVars, pendVars, out>>

\* The value range(NumRuns) gives to i next, NumRuns when it is exhausted
NextI == IF "i" \in DOMAIN ws THEN ws["i"] + 1 ELSE 0

\* cell bd5dfc75, one iteration of the loop: V = ct.white_noise(T, Q),
\* _, Y = ct.forced_response(sys, T, V), tau, r_Y = ct.correlation(T, Y),
\* r_avg = r_avg + r_Y
StochAvgIterate ==
    /\ nb = "stochastic" /\ pc = "avg_loop"
    /\ NextI < NumRuns
    /\ \E V \in white_noise(ws["T"]) :
       \E Y \in {forced_response(ws["sys"], ws["T"], V)} :
       \E r_Y \in {correlation(ws["T"], Y)} :
       \E r_sum \in {[j \in 1..Len(r_Y) |-> ws["r_avg"].num[j] + r_Y[j]]} :
         /\ ws' = Bind(Bind(Bind(Bind(Bind(ws, "i", NextI), "V", V), "Y", Y),
                            "r_Y", r_Y), "r_avg", Ratio(r_sum, 1))
         /\ hist' = [n |-> hist.n + 1,
                     sum |-> [j \in 1..Len(r_Y) |-> hist.sum[j] + r_Y[j]]]
    /\ UNCHANGED <<nb, stmtVars, pc, lqrVars, pendVars, out>>

\* cell bd5dfc75, after the loop: r_avg = r_avg / i; plot r_avg
StochAvgDivide ==
    /\ nb = "stochastic" /\ pc = "avg_loop"
    /\ NextI = NumRuns
    /\ ws' = Bind(ws, "r_avg", Ratio(ws["r_avg"].num, ws["i"]))
    /\ out' = [r_avg |-> ws'["r_avg"]]
    /\ pc' = "averaged"
    /\ UNCHANGED <<nb, stmtVars, stochVars, lqrVars, pendVars>>

\* sigma_z = 1, T = 1,
\* filter = ct.ss([[0, 1], [-1/T**2, -2/T]], [[0], [1]],
\*                [[1/T**2, sqrt(3)/T]], 0)
dryden_filter ==
    [A |-> <<<<0, S>>, <<-S, -2 * S>>>>,
     B |-> <<0, S>>,
     C |-> <<S, ISqrt(3 * S * S)>>]

\* States of the two state filter sys driven by V from rest, at the first
\* n times
RECURSIVE FilterStates(_, _, _, _)
FilterStates(sys, T, V, n) ==
    IF n = 1 THEN <<<<0, 0>>>>
    ELSE LET X  == FilterStates(sys, T, V, n - 1)
             xp == X[n - 1]
             dt == T[n] - T[n - 1]
             dx == [i \in 1..2 |->
                      RDiv(sys.A[i][1] * xp[1] + sys.A[i][2] * xp[2]
                             + sys.B[i] * V[n - 1], S)]
         IN  Append(X, [i \in 1..2 |-> xp[i] + RDiv(dt * dx[i], S)])

\* resp = ct.input_output_response(sys, T, V): resp.time and resp.outputs
input_output_response(sys, T, V) ==
    LET X == FilterStates(sys, T, V, Len(T))
    IN  [time    |-> T,
         outputs |-> [k \in 1..Len(T) |->
                        RDiv(sys.C[1] * X[k][1] + sys.C[2] * X[k][2], S)]]

\* The lags tau returned by ct.correlation(T, Y):
\* sp.signal.correlation_lags(len(Y), len(Y)) * dt
correlation_lags(T, Y) ==
    [j \in 1..(2 * Len(Y) - 1) |-> (j - Len(Y)) * (T[2] - T[1])]

\* cos(2 pi p / n) and sin(2 pi p / n) in fixed point, by Bhaskara's
\* approximation cos(y) = (pi^2 - 4 y^2) / (pi^2 + y^2) on [-pi/2, pi/2]
CosTurn(p, n) ==
    LET q0 == p % n
        q  == IF 2 * q0 > n THEN n - q0 ELSE q0
        h  == n - 2 * q
    IN  IF 4 * q <= n
            THEN RDiv(S * (n * n - 16 * q * q), n * n + 4 * q * q)
            ELSE -RDiv(S * (n * n - 4 * h * h), n * n + h * h)
SinTurn(p, n) == CosTurn(4 * p - n, 4 * n)

\* Sum over the first j samples of v[i] w((i - 1) k, n), w = cos or -sin
RECURSIVE DftSum(_, _, _, _)
DftSum(v, k, j, real) ==
    IF j = 0 THEN 0
    ELSE DftSum(v, k, j - 1, real)
           + RDiv(v[j] * (IF real THEN CosTurn((j - 1) * k, Len(v))
                                  ELSE -SinTurn((j - 1) * k, Len(v))), S)

\* Variant of rfft: the transform without the last bin
rfft_NoLastBin(v) ==
    [k \in 1..(Len(v) \div 2) |->
        [re |-> DftSum(v, k - 1, Len(v), TRUE),
         im |-> DftSum(v, k - 1, Len(v), FALSE)]]

\* sp.fft.rfft(v): the bins 0 .. n // 2 of the discrete Fourier transform
\* of the real array v
rfft(v) ==
    [k \in 1..(Len(v) \div 2 + 1) |->
        [re |-> DftSum(v, k - 1, Len(v), TRUE),
         im |-> DftSum(v, k - 1, Len(v), FALSE)]]

\* sp.fft.rfftfreq(n, d): the frequencies k / (n d), k = 0 .. n // 2
rfftfreq(n, d) == [k \in 1..(n \div 2 + 1) |-> RDiv((k - 1) * S * S, n * d)]

\* cell 8df16a23: the Dryden filter, timepts = np.linspace(0, 10, 1000),
\* V = ct.white_noise(timepts, sigma_z**2),
\* resp = ct.input_output_response(filter, timepts, V)
DrydenResponse ==
    /\ nb = "stochastic" /\ pc = "averaged"
    /\ \E timepts \in {Linspace(10 * S, TimeLen)} :
       \E V \in white_noise(timepts) :
         ws' = Bind(Bind(Bind(Bind(Bind(Bind(ws,
                 "sigma_z", S), "T", S), "filter", dryden_filter),
                 "timepts", timepts), "V", V),
                 "resp", input_output_response(dryden_filter, timepts, V))
    /\ pc' = "dryden"
    /\ UNCHANGED <<nb, stmtVars, stochVars, lqrVars, pendVars, out>>

\* cell febc8b80: tau, R = ct.correlation(resp.time, resp.outputs),
\* dt = timepts[1] - timepts[0], S = sp.fft.rfft(R) * dt * 2,
\* omega = sp.fft.rfftfreq(R.size, dt); the plot of S[1:] over omega[1:]
DrydenSpectrum ==
    /\ nb = "stochastic" /\ pc = "dryden"
    /\ \E tau \in {correlation_lags(ws["resp"].time, ws["resp"].outputs)} :
       \E R \in {correlation(ws["resp"].time, ws["resp"].outputs)} :
       \E dt \in {ws["timepts"][2] - ws["timepts"][1]} :
       \E F \in {rfft(R)} :
       \E Spsd \in {[k \in 1..Len(F) |->
                       [re |-> RDiv(F[k].re * dt * 2, S),
                        im |-> RDiv(F[k].im * dt * 2, S)]]} :
       \E omega \in {rfftfreq(Len(R), dt)} :
         /\ ws' = Bind(Bind(Bind(Bind(Bind(ws, "tau", tau), "R", R),
                                 "dt", dt), "S", Spsd), "omega", omega)
         /\ out' = [x |-> Tail(omega), y |-> Tail(Spsd)]
    /\ pc' = "psd"
    /\ UNCHANGED <<nb, stmtVars, stochVars, lqrVars, pendVars>>

StochNext == \/ StochSetup \/ StochResponse \/ StochCorrelation
             \/ StochAvgStart \/ StochAvgIterate \/ StochAvgDivide
             \/ DrydenResponse \/ DrydenSpectrum

(***************************************************************************)
(* The notebooks statement by statement: which names each top level        *)
(* statement reads and binds, which attributes it assigns and which        *)
(* control constructs it contains.                                         *)
(***************************************************************************)

\* A statement of a notebook cell: the names it reads before binding them,
\* the names it binds, for a function definition the global names its body
\* reads, the attributes it assigns (object, attribute) and the control
\* constructs it contains (if, while, try, except, raise, assert)
Statement(cell, line, isdef, reads, binds, body, attrs, ctl) ==
    [cell |-> cell, line |-> line, def |-> isdef, reads |-> reads,
     binds |-> binds, body |-> body, attrs |-> attrs, ctl |-> ctl]

\* name = expression, import, call, for loop
Stmt(cell, line, reads, binds) ==
    Statement(cell, line, FALSE, reads, binds, {}, {}, {})

\* def name(...): reads are the names its default values read
DefStmt(cell, line, name, reads, body, ctl) ==
    Statement(cell, line, TRUE, reads, {name}, body, {}, ctl)

\* obj.attr = expression
AttrStmt(cell, line, reads, obj, attr) ==
    Statement(cell, line, FALSE, reads, {}, {}, {<<obj, attr>>}, {})

\* A statement with control constructs: try ... except ...
CtlStmt(cell, line, reads, binds, ctl) ==
    Statement(cell, line, FALSE, reads, binds, {}, {}, ctl)

\* Names of the Python builtins the notebooks use
Builtins == {"ImportError", "enumerate", "filter", "print", "range"}

\* lqr_tracking: the statements of cells in order
Cells_lqr_tracking ==
    <<
     \* -- cell 50d5c4d3
     \* import numpy as np
     Stmt("50d5c4d3", 22, {}, {"np"}),
     \* import matplotlib.pyplot as plt
     Stmt("50d5c4d3", 23, {}, {"plt"}),
     \* import control as ct
     Stmt("50d5c4d3", 24, {}, {"ct"}),
     \* -- cell b5923c88
     \* sys = ct.ss([[0, 10], [-1, 0]], [[0], [1]], np.eye(2), 0, na
     Stmt("b5923c88", 45, {"ct", "np"}, {"sys"}),
     \* print(sys)
     Stmt("b5923c88", 46, {"print", "sys"}, {}),
     \* -- cell 874c1479
     \* x0 = np.array([2, 0])
     Stmt("874c1479", 67, {"np"}, {"x0"}),
     \* u0 = np.array([2])
     Stmt("874c1479", 68, {"np"}, {"u0"}),
     \* Tf = 4
     Stmt("874c1479", 69, {}, {"Tf"}),
     \* -- cell 3ce6a230
     \* K, _, _ = ct.lqr(sys, np.eye(sys.nstates), np.eye(sys.ninput
     Stmt("3ce6a230", 88, {"ct", "np", "sys"}, {"K", "_"}),
     \* ctrl, clsys = ct.create_statefbk_iosystem(sys, K)
     Stmt("3ce6a230", 89, {"K", "ct", "sys"}, {"clsys", "ctrl"}),
     \* print(ctrl)
     Stmt("3ce6a230", 90, {"ctrl", "print"}, {}),
     \* print(clsys)
     Stmt("3ce6a230", 91, {"clsys", "print"}, {}),
     \* -- cell b763b91b
     \* tvec = np.linspace(0, Tf, 100)
     Stmt("b763b91b", 122, {"Tf", "np"}, {"tvec"}),
     \* xd = x0
     Stmt("b763b91b", 123, {"x0"}, {"xd"}),
     \* ud = u0
     Stmt("b763b91b", 124, {"u0"}, {"ud"}),
     \* U = np.outer(np.hstack([xd, ud]), np.ones_like(tvec))
     Stmt("b763b91b", 127, {"np", "tvec", "ud", "xd"}, {"U"}),
     \* time, output = ct.input_output_response(clsys, tvec, U)
     Stmt("b763b91b", 128, {"U", "clsys", "ct", "tvec"}, {"output", "time"}),
     \* plt.plot(time, output[0], time, output[1])
     Stmt("b763b91b", 129, {"output", "plt", "time"}, {}),
     \* plt.plot([time[0], time[-1]], [xd[0], xd[0]], '--')
     Stmt("b763b91b", 130, {"plt", "time", "xd"}, {}),
     \* plt.legend(['x[0]', 'x[1]'])
     Stmt("b763b91b", 131, {"plt"}, {}),
     \* -- cell 1ecbb3a0
     \* delta = 0.5
     Stmt("1ecbb3a0", 152, {}, {"delta"}),
     \* U = np.outer(np.hstack([xd, ud + delta]), np.ones_like(tvec)
     Stmt("1ecbb3a0", 153, {"delta", "np", "tvec", "ud", "xd"}, {"U"}),
     \* time, output = ct.input_output_response(clsys, tvec, U)
     Stmt("1ecbb3a0", 154, {"U", "clsys", "ct", "tvec"}, {"output", "time"}),
     \* plt.plot(time, output[0], time, output[1])
     Stmt("1ecbb3a0", 155, {"output", "plt", "time"}, {}),
     \* plt.plot([time[0], time[-1]], [xd[0], xd[0]], '--')
     Stmt("1ecbb3a0", 156, {"plt", "time", "xd"}, {}),
     \* plt.legend(['x[0]', 'x[1]'])
     Stmt("1ecbb3a0", 157, {"plt"}, {}),
     \* -- cell ee2ecc51
     \* C = np.array([[1, 0]])
     Stmt("ee2ecc51", 188, {"np"}, {"C"}),
     \* A_aug = np.block([[sys.A, np.zeros((sys.nstates, 1))], [C, 0
     Stmt("ee2ecc51", 191, {"C", "np", "sys"}, {"A_aug"}),
     \* B_aug = np.vstack([sys.B, 0])
     Stmt("ee2ecc51", 195, {"np", "sys"}, {"B_aug"}),
     \* print('A =', A_aug, '\nB =', B_aug)
     Stmt("ee2ecc51", 196, {"A_aug", "B_aug", "print"}, {}),
     \* -- cell 3dd3479f
     \* K_aug, _, _ = ct.lqr(A_aug, B_aug, np.diag([1, 1, 1]), np.ey
     Stmt("3dd3479f", 215, {"A_aug", "B_aug", "ct", "np", "sys"},
          {"K_aug", "_"}),
     \* print(K_aug)
     Stmt("3dd3479f", 217, {"K_aug", "print"}, {}),
     \* -- cell e183a822
     \* integral_ctrl, sys_integral = ct.create_statefbk_iosystem(sy
     Stmt("e183a822", 240, {"C", "K_aug", "ct", "sys"},
          {"integral_ctrl", "sys_integral"}),
     \* print(integral_ctrl)
     Stmt("e183a822", 241, {"integral_ctrl", "print"}, {}),
     \* print(sys_integral)
     Stmt("e183a822", 242, {"print", "sys_integral"}, {}),
     \* delta = 0.5
     Stmt("e183a822", 245, {}, {"delta"}),
     \* U = np.outer(np.hstack([xd, ud + delta]), np.ones_like(tvec)
     Stmt("e183a822", 246, {"delta", "np", "tvec", "ud", "xd"}, {"U"}),
     \* time, output = ct.input_output_response(sys_integral, tvec, 
     Stmt("e183a822", 247, {"U", "ct", "sys_integral", "tvec"},
          {"output", "time"}),
     \* plt.plot(time, output[0], time, output[1])
     Stmt("e183a822", 248, {"output", "plt", "time"}, {}),
     \* plt.plot([time[0], time[-1]], [xd[0], xd[0]], '--')
     Stmt("e183a822", 249, {"plt", "time", "xd"}, {}),
     \* plt.legend(['x[0]', 'x[1]'])
     Stmt("e183a822", 250, {"plt"}, {})
    >>

\* frequency: the statements of cells in order
Cells_frequency_1 ==
    <<
     \* -- cell invalid-carnival
     \* import numpy as np
     Stmt("invalid-carnival", 29, {}, {"np"}),
     \* import matplotlib.pyplot as plt
     Stmt("invalid-carnival", 30, {}, {"plt"}),
     \* import math
     Stmt("invalid-carnival", 31, {}, {"math"}),
     \* try:
     CtlStmt("invalid-carnival", 32, {"ImportError", "print"},
          {"ct"},
          {"except", "try"}),
     \* plt.rcParams.update(ct.rcParams)
     Stmt("invalid-carnival", 40, {"ct", "plt"}, {}),
     \* -- cell 27bb3c38
     \* servomech_params = {'J': 100, 'b': 10, 'k': 1, 'r': 1, 'l': 
     Stmt("27bb3c38", 102, {}, {"servomech_params"}),
     \* def servomech_update(t, x, u, params):
     DefStmt("27bb3c38", 112, "servomech_update", {},
          {"np"},
          {}),
     \* def servomech_output(t, x, u, params):
     DefStmt("27bb3c38", 129, "servomech_output", {},
          {"np"},
          {}),
     \* servomech = ct.nlsys(servomech_update, servomech_output, nam
     Stmt("27bb3c38", 134, {"ct", "servomech_output", "servomech_params", "servomech_update"},
          {"servomech"}),
     \* print(servomech)
     Stmt("27bb3c38", 140, {"print", "servomech"}, {}),
     \* print('\nParams:', servomech.params)
     Stmt("27bb3c38", 141, {"print", "servomech"}, {})
    >>

\* Variant of Cell_senior_carpet: the state matrix of P is assigned
Cell_senior_carpet_AssignsA ==
    <<
     \* theta_e = 15 / 180 * np.pi
     Stmt("senior-carpet", 164, {"np"}, {"theta_e"}),
     \* u_e = servomech.params['k'] * servomech.params['r'] * np.sin
     Stmt("senior-carpet", 167, {"np", "servomech", "theta_e"}, {"u_e"}),
     \* print('Equilibrium torque = %g' % u_e)
     Stmt("senior-carpet", 168, {"print", "u_e"}, {}),
     \* P = servomech.linearize([theta_e, 0], u_e, name='P_ss')
     Stmt("senior-carpet", 171, {"servomech", "theta_e", "u_e"}, {"P"}),
     \* P.A = ...
     AttrStmt("senior-carpet", 172, {"P"}, "P", "A"),
     \* print('Linearized dynamics:', P)
     Stmt("senior-carpet", 173, {"P", "print"}, {}),
     \* print('Zeros: ', P.zeros())
     Stmt("senior-carpet", 174, {"P", "print"}, {}),
     \* print('Poles: ', P.poles())
     Stmt("senior-carpet", 175, {"P", "print"}, {}),
     \* print('')
     Stmt("senior-carpet", 176, {"print"}, {}),
     \* P_tf = ct.tf(P, name='P_tf')
     Stmt("senior-carpet", 179, {"P", "ct"}, {"P_tf"}),
     \* print(P_tf)
     Stmt("senior-carpet", 180, {"P_tf", "print"}, {})
    >>

\* frequency, cell senior-carpet: the statements of the cell
Cell_senior_carpet ==
    <<
     \* theta_e = 15 / 180 * np.pi
     Stmt("senior-carpet", 164, {"np"}, {"theta_e"}),
     \* u_e = servomech.params['k'] * servomech.params['r'] * np.sin
     Stmt("senior-carpet", 167, {"np", "servomech", "theta_e"}, {"u_e"}),
     \* print('Equilibrium torque = %g' % u_e)
     Stmt("senior-carpet", 168, {"print", "u_e"}, {}),
     \* P = servomech.linearize([theta_e, 0], u_e, name='P_ss')
     Stmt("senior-carpet", 171, {"servomech", "theta_e", "u_e"}, {"P"}),
     \* P.name = 'P_ss'
     AttrStmt("senior-carpet", 172, {"P"}, "P", "name"),
     \* print('Linearized dynamics:', P)
     Stmt("senior-carpet", 173, {"P", "print"}, {}),
     \* print('Zeros: ', P.zeros())
     Stmt("senior-carpet", 174, {"P", "print"}, {}),
     \* print('Poles: ', P.poles())
     Stmt("senior-carpet", 175, {"P", "print"}, {}),
     \* print('')
     Stmt("senior-carpet", 176, {"print"}, {}),
     \* P_tf = ct.tf(P, name='P_tf')
     Stmt("senior-carpet", 179, {"P", "ct"}, {"P_tf"}),
     \* print(P_tf)
     Stmt("senior-carpet", 180, {"P_tf", "print"}, {})
    >>

\* frequency: the statements of cells in order
Cells_frequency_2 ==
    <<
     \* -- cell RxXFTpwO5bGI
     \* ct.set_defaults('freqplot', freq_label='Frequency [rad/ms]')
     Stmt("RxXFTpwO5bGI", 205, {"ct"}, {}),
     \* freqresp = ct.frequency_response(P, np.logspace(-2, 0))
     Stmt("RxXFTpwO5bGI", 208, {"P", "ct", "np"}, {"freqresp"}),
     \* freqresp.plot()
     Stmt("RxXFTpwO5bGI", 209, {"freqresp"}, {}),
     \* ct.bode_plot(P_tf, np.logspace(-2, 0), '--')
     Stmt("RxXFTpwO5bGI", 212, {"P_tf", "ct", "np"}, {}),
     \* -- cell 8NK8O6XT7B_a
     \* kp = 1
     Stmt("8NK8O6XT7B_a", 240, {}, {"kp"}),
     \* ki = 1
     Stmt("8NK8O6XT7B_a", 241, {}, {"ki"}),
     \* C = ct.tf([kp, ki], [1, 0], name='C')
     Stmt("8NK8O6XT7B_a", 244, {"ct", "ki", "kp"}, {"C"}),
     \* print(C)
     Stmt("8NK8O6XT7B_a", 245, {"C", "print"}, {}),
     \* s = ct.tf('s')
     Stmt("8NK8O6XT7B_a", 248, {"ct"}, {"s"}),
     \* C = ct.tf(kp + ki / s, name='C')
     Stmt("8NK8O6XT7B_a", 249, {"ct", "ki", "kp", "s"}, {"C"}),
     \* print(C)
     Stmt("8NK8O6XT7B_a", 250, {"C", "print"}, {}),
     \* -- cell 074427a3
     \* L = P * C
     Stmt("074427a3", 261, {"C", "P"}, {"L"}),
     \* cplt = ct.bode_plot([P, C, L], label=['P', 'C', 'L'])
     Stmt("074427a3", 262, {"C", "L", "P", "ct"}, {"cplt"}),
     \* cplt.set_plot_title('PI controller for servomechanism')
     Stmt("074427a3", 263, {"cplt"}, {}),
     \* -- cell Qmp59pmS9GLj
     \* fig = plt.figure(figsize=[7, 4])
     Stmt("Qmp59pmS9GLj", 295, {"plt"}, {"fig"}),
     \* ax1 = plt.subplot(2, 2, 1)
     Stmt("Qmp59pmS9GLj", 296, {"plt"}, {"ax1"}),
     \* ax2 = plt.subplot(2, 2, 3)
     Stmt("Qmp59pmS9GLj", 297, {"plt"}, {"ax2"}),
     \* ct.bode_plot(L, ax=[ax1, ax2])
     Stmt("Qmp59pmS9GLj", 298, {"L", "ax1", "ax2", "ct"}, {}),
     \* fig.align_labels()
     Stmt("Qmp59pmS9GLj", 301, {"fig"}, {}),
     \* ax1.set_title('Bode plot for L')
     Stmt("Qmp59pmS9GLj", 302, {"ax1"}, {}),
     \* ax2 = plt.subplot(1, 2, 2)
     Stmt("Qmp59pmS9GLj", 304, {"plt"}, {"ax2"}),
     \* ct.nyquist_plot(L, ax=ax2, title='')
     Stmt("Qmp59pmS9GLj", 305, {"L", "ax2", "ct"}, {}),
     \* plt.title('Nyquist plot for L')
     Stmt("Qmp59pmS9GLj", 306, {"plt"}, {}),
     \* plt.suptitle('Loop analysis for (unstable) servomechanism')
     Stmt("Qmp59pmS9GLj", 308, {"plt"}, {}),
     \* plt.tight_layout()
     Stmt("Qmp59pmS9GLj", 309, {"plt"}, {}),
     \* -- cell K7ifUBL0Z3xN
     \* nyqresp = ct.nyquist_response(L)
     Stmt("K7ifUBL0Z3xN", 330, {"L", "ct"}, {"nyqresp"}),
     \* print('N = encirclements: ', nyqresp.count)
     Stmt("K7ifUBL0Z3xN", 331, {"nyqresp", "print"}, {}),
     \* print('P = RHP poles of L: ', np.sum(np.real(L.poles()) > 0)
     Stmt("K7ifUBL0Z3xN", 332, {"L", "np", "print"}, {}),
     \* print('Z = N + P = RHP zeros of 1 + L:', np.sum(np.real((1 +
     Stmt("K7ifUBL0Z3xN", 333, {"L", "np", "print"}, {}),
     \* print('Zeros of (1 + L) = ', (1 + L).zeros())
     Stmt("K7ifUBL0Z3xN", 334, {"L", "print"}, {}),
     \* print('')
     Stmt("K7ifUBL0Z3xN", 335, {"print"}, {}),
     \* T = ct.feedback(L)
     Stmt("K7ifUBL0Z3xN", 337, {"L", "ct"}, {"T"}),
     \* ct.step_response(T).plot(title='Step response for (unstable)
     Stmt("K7ifUBL0Z3xN", 338, {"T", "ct"}, {}),
     \* -- cell R5IBk3Ai9Slk
     \* fig = plt.figure(figsize=[7, 5.8])
     Stmt("R5IBk3Ai9Slk", 366, {"plt"}, {"fig"}),
     \* ax1 = plt.subplot(2, 2, 1)
     Stmt("R5IBk3Ai9Slk", 369, {"plt"}, {"ax1"}),
     \* plt.plot(np.real(nyqresp.contour), np.imag(nyqresp.contour))
     Stmt("R5IBk3Ai9Slk", 370, {"np", "nyqresp", "plt"}, {}),
     \* plt.axis([-0.0001, 0.0004, 0, 0.0004])
     Stmt("R5IBk3Ai9Slk", 371, {"plt"}, {}),
     \* plt.xlabel('Real axis')
     Stmt("R5IBk3Ai9Slk", 372, {"plt"}, {}),
     \* plt.ylabel('Imaginary axis')
     Stmt("R5IBk3Ai9Slk", 373, {"plt"}, {}),
     \* plt.title('Zoom on D-contour')
     Stmt("R5IBk3Ai9Slk", 374, {"plt"}, {}),
     \* from matplotlib import ticker
     Stmt("R5IBk3Ai9Slk", 377, {}, {"ticker"}),
     \* ax1.xaxis.set_major_formatter(ticker.StrMethodFormatter('{x:
     Stmt("R5IBk3Ai9Slk", 378, {"ax1", "ticker"}, {}),
     \* ax1.yaxis.set_major_formatter(ticker.StrMethodFormatter('{x:
     Stmt("R5IBk3Ai9Slk", 379, {"ax1", "ticker"}, {}),
     \* ax2 = plt.subplot(2, 2, 2)
     Stmt("R5IBk3Ai9Slk", 381, {"plt"}, {"ax2"}),
     \* ct.nyquist_plot(L, ax=ax2)
     Stmt("R5IBk3Ai9Slk", 382, {"L", "ax2", "ct"}, {}),
     \* plt.title('Nyquist curve')
     Stmt("R5IBk3Ai9Slk", 383, {"plt"}, {}),
     \* plt.suptitle('Nyquist contour for pole at the origin')
     Stmt("R5IBk3Ai9Slk", 385, {"plt"}, {}),
     \* plt.tight_layout()
     Stmt("R5IBk3Ai9Slk", 386, {"plt"}, {}),
     \* -- cell YsM8SnXz_Kaj
     \* Cnew = ct.tf(kp + ki / 200 / s, name='C_new')
     Stmt("YsM8SnXz_Kaj", 409, {"ct", "ki", "kp", "s"}, {"Cnew"}),
     \* Lnew = ct.tf(P * Cnew, name='L_new')
     Stmt("YsM8SnXz_Kaj", 410, {"Cnew", "P", "ct"}, {"Lnew"}),
     \* plt.figure(figsize=[7, 4])
     Stmt("YsM8SnXz_Kaj", 412, {"plt"}, {}),
     \* ax1 = plt.subplot(2, 2, 1)
     Stmt("YsM8SnXz_Kaj", 413, {"plt"}, {"ax1"}),
     \* ax2 = plt.subplot(2, 2, 3)
     Stmt("YsM8SnXz_Kaj", 414, {"plt"}, {"ax2"}),
     \* ct.bode_plot([Lnew, L], ax=[ax1, ax2], label=['L_new', 'L_ol
     Stmt("YsM8SnXz_Kaj", 415, {"L", "Lnew", "ax1", "ax2", "ct"}, {}),
     \* ax1.loglog([0.001, 10.0], [1, 1], 'k', linewidth=0.5)
     Stmt("YsM8SnXz_Kaj", 418, {"ax1"}, {}),
     \* ax1.set_title('Bode plot for L_new, L_old', size='medium')
     Stmt("YsM8SnXz_Kaj", 419, {"ax1"}, {}),
     \* ax3 = plt.subplot(1, 2, 2)
     Stmt("YsM8SnXz_Kaj", 421, {"plt"}, {"ax3"}),
     \* ct.nyquist_plot(Lnew, max_curve_magnitude=5, ax=ax3)
     Stmt("YsM8SnXz_Kaj", 422, {"Lnew", "ax3", "ct"}, {}),
     \* ax3.set_title('Nyquist plot for Lnew', size='medium')
     Stmt("YsM8SnXz_Kaj", 423, {"ax3"}, {}),
     \* plt.suptitle('Loop analysis for (stable) servomechanism')
     Stmt("YsM8SnXz_Kaj", 425, {"plt"}, {}),
     \* plt.tight_layout()
     Stmt("YsM8SnXz_Kaj", 426, {"plt"}, {}),
     \* -- cell GGfJwG716jU2
     \* Tnew = ct.feedback(Lnew)
     Stmt("GGfJwG716jU2", 449, {"Lnew", "ct"}, {"Tnew"}),
     \* cplt = ct.step_response(Tnew).plot(time_label='Time [ms]')
     Stmt("GGfJwG716jU2", 450, {"Tnew", "ct"}, {"cplt"}),
     \* cplt.set_plot_title('Step response for (stable) spring-mass 
     Stmt("GGfJwG716jU2", 451, {"cplt"}, {}),
     \* -- cell e6da93a4-5202-45d7-9e5a-697848f4ba71
     \* Td = 1
     Stmt("e6da93a4-5202-45d7-9e5a-697848f4ba71", 472, {}, {"Td"}),
     \* Ti = Td * 10
     Stmt("e6da93a4-5202-45d7-9e5a-697848f4ba71", 473, {"Td"}, {"Ti"}),
     \* kp = 500
     Stmt("e6da93a4-5202-45d7-9e5a-697848f4ba71", 474, {}, {"kp"}),
     \* kp = 150
     Stmt("e6da93a4-5202-45d7-9e5a-697848f4ba71", 477, {}, {"kp"}),
     \* Ti = Td * 5
     Stmt("e6da93a4-5202-45d7-9e5a-697848f4ba71", 478, {"Td"}, {"Ti"}),
     \* kp = 150
     Stmt("e6da93a4-5202-45d7-9e5a-697848f4ba71", 478, {}, {"kp"}),
     \* ki = kp / Ti
     Stmt("e6da93a4-5202-45d7-9e5a-697848f4ba71", 481, {"Ti", "kp"}, {"ki"}),
     \* kd = kp * Td
     Stmt("e6da93a4-5202-45d7-9e5a-697848f4ba71", 482, {"Td", "kp"}, {"kd"}),
     \* ctrl_shape = kp + ki / s + kd * s
     Stmt("e6da93a4-5202-45d7-9e5a-697848f4ba71", 485, {"kd", "ki", "kp", "s"},
          {"ctrl_shape"}),
     \* ltf_shape = ct.tf(P_tf * ctrl_shape, name='L_shape')
     Stmt("e6da93a4-5202-45d7-9e5a-697848f4ba71", 488, {"P_tf", "ct", "ctrl_shape"},
          {"ltf_shape"}),
     \* cplt = ct.frequency_response([P, ctrl_shape]).plot(label=['P
     Stmt("e6da93a4-5202-45d7-9e5a-697848f4ba71", 490, {"P", "ct", "ctrl_shape"},
          {"cplt"}),
     \* cplt = ct.frequency_response(ltf_shape).plot(margins=True)
     Stmt("e6da93a4-5202-45d7-9e5a-697848f4ba71", 491, {"ct", "ltf_shape"},
          {"cplt"}),
     \* cplt.set_plot_title('Loop shaping design for servomechanism 
     Stmt("e6da93a4-5202-45d7-9e5a-697848f4ba71", 493, {"cplt"}, {}),
     \* -- cell d731f372-4992-464c-9ca5-49cc1d554799
     \* T_shape = ct.feedback(ltf_shape)
     Stmt("d731f372-4992-464c-9ca5-49cc1d554799", 504, {"ct", "ltf_shape"},
          {"T_shape"}),
     \* cplt = ct.step_response(T_shape).plot(time_label='Time [ms]'
     Stmt("d731f372-4992-464c-9ca5-49cc1d554799", 505, {"T_shape", "ct"},
          {"cplt"}),
     \* -- cell ceqcg3oM619g
     \* cplt = ct.gangof4(P_tf, ctrl_shape)
     Stmt("ceqcg3oM619g", 529, {"P_tf", "ct", "ctrl_shape"}, {"cplt"}),
     \* -- cell m-8ItbHwxLrv
     \* plt.figure(figsize=[7, 4])
     Stmt("m-8ItbHwxLrv", 560, {"plt"}, {}),
     \* ax1 = plt.subplot(2, 2, 1)
     Stmt("m-8ItbHwxLrv", 563, {"plt"}, {"ax1"}),
     \* plt.title('Bode plot for Lnew, with margins')
     Stmt("m-8ItbHwxLrv", 564, {"plt"}, {}),
     \* ax2 = plt.subplot(2, 2, 3)
     Stmt("m-8ItbHwxLrv", 565, {"plt"}, {"ax2"}),
     \* ct.bode_plot(Lnew, ax=[ax1, ax2], margins=True)
     Stmt("m-8ItbHwxLrv", 566, {"Lnew", "ax1", "ax2", "ct"}, {}),
     \* gm, pm, wpc, wgc = ct.margin(Lnew)
     Stmt("m-8ItbHwxLrv", 569, {"Lnew", "ct"}, {"gm", "pm", "wgc", "wpc"}),
     \* print(f'Gm = {gm:2.2g} (at {wpc:.2g} rad/ms)')
     Stmt("m-8ItbHwxLrv", 570, {"gm", "print", "wpc"}, {}),
     \* print(f'Pm = {pm:3.2g} deg (at {wgc:.2g} rad/ms)')
     Stmt("m-8ItbHwxLrv", 571, {"pm", "print", "wgc"}, {}),
     \* resp = ct.frequency_response(1 + Lnew)
     Stmt("m-8ItbHwxLrv", 574, {"Lnew", "ct"}, {"resp"}),
     \* sm = np.min(resp.magnitude)
     Stmt("m-8ItbHwxLrv", 575, {"np", "resp"}, {"sm"}),
     \* wsm = resp.omega[np.argmin(resp.magnitude)]
     Stmt("m-8ItbHwxLrv", 576, {"np", "resp"}, {"wsm"}),
     \* print(f'Sm = {sm:2.2g} (at {wsm:.2g} rad/ms)')
     Stmt("m-8ItbHwxLrv", 577, {"print", "sm", "wsm"}, {}),
     \* ax3 = plt.subplot(1, 2, 2)
     Stmt("m-8ItbHwxLrv", 580, {"plt"}, {"ax3"}),
     \* ct.nyquist_plot(Lnew, ax=ax3)
     Stmt("m-8ItbHwxLrv", 581, {"Lnew", "ax3", "ct"}, {}),
     \* plt.title('Nyquist plot for Lnew [zoomed]')
     Stmt("m-8ItbHwxLrv", 582, {"plt"}, {}),
     \* plt.axis([-2, 3, -2.6, 2.6])
     Stmt("m-8ItbHwxLrv", 583, {"plt"}, {}),
     \* Lgm = 0
     Stmt("m-8ItbHwxLrv", 590, {}, {"Lgm"}),
     \* plt.plot([-1, Lgm], [0, 0], 'k-', linewidth=0.5)
     Stmt("m-8ItbHwxLrv", 591, {"Lgm", "plt"}, {}),
     \* plt.text(-0.9, 0.1, '1/gm')
     Stmt("m-8ItbHwxLrv", 592, {"plt"}, {}),
     \* theta = np.linspace(0, 2 * math.pi)
     Stmt("m-8ItbHwxLrv", 595, {"math", "np"}, {"theta"}),
     \* plt.plot(np.cos(theta), np.sin(theta), 'k--', linewidth=0.5)
     Stmt("m-8ItbHwxLrv", 596, {"np", "plt", "theta"}, {}),
     \* plt.text(-1.3, -0.8, 'pm')
     Stmt("m-8ItbHwxLrv", 597, {"plt"}, {}),
     \* Lsm = Lnew(wsm * 1j)
     Stmt("m-8ItbHwxLrv", 600, {"Lnew", "wsm"}, {"Lsm"}),
     \* plt.plot([-1, Lsm.real], [0, Lsm.imag], 'k-', linewidth=0.5)
     Stmt("m-8ItbHwxLrv", 601, {"Lsm", "plt"}, {}),
     \* plt.text(-0.4, -0.5, 'sm')
     Stmt("m-8ItbHwxLrv", 602, {"plt"}, {}),
     \* plt.suptitle('')
     Stmt("m-8ItbHwxLrv", 604, {"plt"}, {}),
     \* plt.tight_layout()
     Stmt("m-8ItbHwxLrv", 605, {"plt"}, {}),
     \* -- cell ZbPzrlPIrHnp
     \* P = ct.tf([1], [1, 0.1, -1])
     Stmt("ZbPzrlPIrHnp", 642, {"ct"}, {"P"}),
     \* P.poles()
     Stmt("ZbPzrlPIrHnp", 643, {"P"}, {}),
     \* -- cell hjQS_dED7yJE
     \* kp = 10
     Stmt("hjQS_dED7yJE", 672, {}, {"kp"}),
     \* kd = 2
     Stmt("hjQS_dED7yJE", 673, {}, {"kd"}),
     \* C = ct.tf([kd, kp], [1])
     Stmt("hjQS_dED7yJE", 674, {"ct", "kd", "kp"}, {"C"}),
     \* L = P * C
     Stmt("hjQS_dED7yJE", 677, {"C", "P"}, {"L"}),
     \* L.name = 'L'
     AttrStmt("hjQS_dED7yJE", 678, {"L"}, "L", "name"),
     \* print(L)
     Stmt("hjQS_dED7yJE", 679, {"L", "print"}, {}),
     \* print('Zeros: ', L.zeros())
     Stmt("hjQS_dED7yJE", 680, {"L", "print"}, {}),
     \* print('Poles: ', L.poles())
     Stmt("hjQS_dED7yJE", 681, {"L", "print"}, {}),
     \* -- cell YI_KJo0E9pFd
     \* plt.figure(figsize=[7, 4])
     Stmt("YI_KJo0E9pFd", 692, {"plt"}, {}),
     \* ax1 = plt.subplot(2, 2, 1)
     Stmt("YI_KJo0E9pFd", 693, {"plt"}, {"ax1"}),
     \* plt.title('Bode plot for L', size='medium')
     Stmt("YI_KJo0E9pFd", 694, {"plt"}, {}),
     \* ax2 = plt.subplot(2, 2, 3)
     Stmt("YI_KJo0E9pFd", 695, {"plt"}, {"ax2"}),
     \* ct.bode_plot(L, ax=[ax1, ax2])
     Stmt("YI_KJo0E9pFd", 696, {"L", "ax1", "ax2", "ct"}, {}),
     \* ax3 = plt.subplot(1, 2, 2)
     Stmt("YI_KJo0E9pFd", 698, {"plt"}, {"ax3"}),
     \* ct.nyquist_plot(L, ax=ax3)
     Stmt("YI_KJo0E9pFd", 699, {"L", "ax3", "ct"}, {}),
     \* plt.title('Nyquist plot for L', size='medium')
     Stmt("YI_KJo0E9pFd", 700, {"plt"}, {}),
     \* plt.suptitle('Loop analysis for inverted pendulum')
     Stmt("YI_KJo0E9pFd", 702, {"plt"}, {}),
     \* plt.tight_layout()
     Stmt("YI_KJo0E9pFd", 703, {"plt"}, {}),
     \* -- cell 8dH03kv9-Da8
     \* nyqresp = ct.nyquist_response(L)
     Stmt("8dH03kv9-Da8", 714, {"L", "ct"}, {"nyqresp"}),
     \* print('N = encirclements: ', nyqresp.count)
     Stmt("8dH03kv9-Da8", 715, {"nyqresp", "print"}, {}),
     \* print('P = RHP poles of L: ', np.sum(np.real(L.poles()) > 0)
     Stmt("8dH03kv9-Da8", 716, {"L", "np", "print"}, {}),
     \* print('Z = N + P = RHP zeros of 1 + L:', np.sum(np.real((1 +
     Stmt("8dH03kv9-Da8", 717, {"L", "np", "print"}, {}),
     \* print('Poles of L = ', L.poles())
     Stmt("8dH03kv9-Da8", 718, {"L", "print"}, {}),
     \* print('Zeros of 1 + L = ', (1 + L).zeros())
     Stmt("8dH03kv9-Da8", 719, {"L", "print"}, {}),
     \* print('')
     Stmt("8dH03kv9-Da8", 720, {"print"}, {}),
     \* T = ct.feedback(L)
     Stmt("8dH03kv9-Da8", 722, {"L", "ct"}, {"T"}),
     \* ct.initial_response(T, X0=[0.1, 0]).plot()
     Stmt("8dH03kv9-Da8", 723, {"T", "ct"}, {}),
     \* -- cell oTmOun41_opt
     \* ct.gangof4(P, C)
     Stmt("oTmOun41_opt", 753, {"C", "P", "ct"}, {}),
     \* -- cell vhKi_L-F_6Ws
     \* Cnew = (kp + kd * s) / (s / 20 + 1) ** 2
     Stmt("vhKi_L-F_6Ws", 785, {"kd", "kp", "s"}, {"Cnew"}),
     \* Cnew.name = 'Cnew'
     AttrStmt("vhKi_L-F_6Ws", 786, {"Cnew"}, "Cnew", "name"),
     \* print(Cnew)
     Stmt("vhKi_L-F_6Ws", 787, {"Cnew", "print"}, {}),
     \* Lnew = P * Cnew
     Stmt("vhKi_L-F_6Ws", 789, {"Cnew", "P"}, {"Lnew"}),
     \* Lnew.name = 'Lnew'
     AttrStmt("vhKi_L-F_6Ws", 790, {"Lnew"}, "Lnew", "name"),
     \* plt.figure(figsize=[7, 4])
     Stmt("vhKi_L-F_6Ws", 792, {"plt"}, {}),
     \* ax1 = plt.subplot(2, 2, 1)
     Stmt("vhKi_L-F_6Ws", 793, {"plt"}, {"ax1"}),
     \* ax2 = plt.subplot(2, 2, 3)
     Stmt("vhKi_L-F_6Ws", 794, {"plt"}, {"ax2"}),
     \* ct.bode_plot([Lnew, L], ax=[ax1, ax2])
     Stmt("vhKi_L-F_6Ws", 795, {"L", "Lnew", "ax1", "ax2", "ct"}, {}),
     \* ax1.loglog([0.1, 100.0], [1, 1], 'k', linewidth=0.5)
     Stmt("vhKi_L-F_6Ws", 796, {"ax1"}, {}),
     \* ax1.set_title('Bode plot for L, Lnew', size='medium')
     Stmt("vhKi_L-F_6Ws", 797, {"ax1"}, {}),
     \* ax3 = plt.subplot(1, 2, 2)
     Stmt("vhKi_L-F_6Ws", 799, {"plt"}, {"ax3"}),
     \* ct.nyquist_plot(Lnew, ax=ax3)
     Stmt("vhKi_L-F_6Ws", 800, {"Lnew", "ax3", "ct"}, {}),
     \* ax3.set_title('Nyquist plot for Lnew', size='medium')
     Stmt("vhKi_L-F_6Ws", 801, {"ax3"}, {}),
     \* plt.suptitle('Stability analysis for inverted pendulum')
     Stmt("vhKi_L-F_6Ws", 803, {"plt"}, {}),
     \* plt.tight_layout()
     Stmt("vhKi_L-F_6Ws", 804, {"plt"}, {}),
     \* -- cell FknwW6GkBLLU
     \* ct.gangof4(P, Cnew)
     Stmt("FknwW6GkBLLU", 825, {"Cnew", "P", "ct"}, {}),
     \* -- cell wJHJLjXwCNz-
     \* Tnew = ct.feedback(Lnew)
     Stmt("wJHJLjXwCNz-", 836, {"Lnew", "ct"}, {"Tnew"}),
     \* ct.step_response(Tnew, 10).plot()
     Stmt("wJHJLjXwCNz-", 837, {"Tnew", "ct"}, {})
    >>

\* lq_optimal: the statements of cells in order
Cells_lq_optimal_1 ==
    <<
     \* -- cell 866842ea
     \* import numpy as np
     Stmt("866842ea", 887, {}, {"np"}),
     \* import scipy as sp
     Stmt("866842ea", 888, {}, {"sp"}),
     \* import matplotlib.pyplot as plt
     Stmt("866842ea", 889, {}, {"plt"}),
     \* import control as ct
     Stmt("866842ea", 890, {}, {"ct"}),
     \* import control.optimal as opt
     Stmt("866842ea", 891, {}, {"opt"}),
     \* import control.flatsys as fs
     Stmt("866842ea", 892, {}, {"fs"}),
     \* import time
     Stmt("866842ea", 893, {}, {"time"}),
     \* -- cell 48c1bd7f-0db6-4488-af41-41f685280ec9
     \* def _kincar_flat_forward(x, u, params={}):
     DefStmt("48c1bd7f-0db6-4488-af41-41f685280ec9", 916, "_kincar_flat_forward", {},
          {"np"},
          {}),
     \* def _kincar_flat_reverse(zflag, params={}):
     DefStmt("48c1bd7f-0db6-4488-af41-41f685280ec9", 942, "_kincar_flat_reverse", {},
          {"np"},
          {"if", "raise"}),
     \* def _kincar_update(t, x, u, params):
     DefStmt("48c1bd7f-0db6-4488-af41-41f685280ec9", 970, "_kincar_update", {},
          {"np"},
          {}),
     \* def _kincar_output(t, x, u, params):
     DefStmt("48c1bd7f-0db6-4488-af41-41f685280ec9", 980, "_kincar_output", {},
          {},
          {}),
     \* kincar = fs.FlatSystem(_kincar_flat_forward, _kincar_flat_re
     Stmt("48c1bd7f-0db6-4488-af41-41f685280ec9", 984, {"_kincar_flat_forward", "_kincar_flat_reverse",
           "_kincar_output", "_kincar_update", "fs"},
          {"kincar"})
    >>

\* Variant of Cell_fbdd78c0: plot_lanechange raises an error of its own
Cell_fbdd78c0_Raises ==
    <<
     \* def plot_lanechange(t, y, u, figure=None, yf=None):
     DefStmt("fbdd78c0-30e9-43f7-9e8d-198ae38c2988", 999, "plot_lanechange", {},
          {"plt"},
          {"if", "raise"})
    >>

\* lq_optimal, cell fbdd78c0-30e9-43f7-9e8d-198ae38c2988: the statements of the cell
Cell_fbdd78c0 ==
    <<
     \* def plot_lanechange(t, y, u, figure=None, yf=None):
     DefStmt("fbdd78c0-30e9-43f7-9e8d-198ae38c2988", 999, "plot_lanechange", {},
          {"plt"},
          {"if"})
    >>

\* lq_optimal: the statements of cells in order
Cells_lq_optimal_2 ==
    <<
     \* -- cell de9d85f3
     \* x0 = np.array([-40, -2.0, 0.0])
     Stmt("de9d85f3", 1031, {"np"}, {"x0"}),
     \* u0 = np.array([10, 0])
     Stmt("de9d85f3", 1032, {"np"}, {"u0"}),
     \* Tf = 4
     Stmt("de9d85f3", 1033, {}, {"Tf"}),
     \* sys = kincar.linearize(x0, u0)
     Stmt("de9d85f3", 1036, {"kincar", "u0", "x0"}, {"sys"}),
     \* print(sys)
     Stmt("de9d85f3", 1037, {"print", "sys"}, {}),
     \* -- cell 02e9f87c
     \* Qx = np.diag([1, 1, 1])
     Stmt("02e9f87c", 1059, {"np"}, {"Qx"}),
     \* Qu = np.diag([1, 1])
     Stmt("02e9f87c", 1060, {"np"}, {"Qu"}),
     \* Pf = np.diag([1, 1, 1])
     Stmt("02e9f87c", 1061, {"np"}, {"Pf"}),
     \* -- cell 02d74789
     \* def Pdot_reverse(t, x):
     DefStmt("02d74789", 1136, "Pdot_reverse", {},
          {"Qu", "Qx", "np", "sys"},
          {}),
     \* P0 = np.reshape(Pf, -1)
     Stmt("02d74789", 1148, {"Pf", "np"}, {"P0"}),
     \* Psol = sp.integrate.solve_ivp(Pdot_reverse, (0, Tf), P0)
     Stmt("02d74789", 1149, {"P0", "Pdot_reverse", "Tf", "sp"}, {"Psol"}),
     \* Pfwd = np.reshape(Psol.y, (sys.nstates, sys.nstates, -1))
     Stmt("02d74789", 1150, {"Psol", "np", "sys"}, {"Pfwd"}),
     \* Prev = Pfwd[:, :, ::-1]
     Stmt("02d74789", 1153, {"Pfwd"}, {"Prev"}),
     \* trev = Tf - Psol.t[::-1]
     Stmt("02d74789", 1154, {"Psol", "Tf"}, {"trev"}),
     \* print('Trange = ', trev[0], 'to', trev[-1])
     Stmt("02d74789", 1156, {"print", "trev"}, {}),
     \* print('P[Tf] =', Prev[:, :, -1])
     Stmt("02d74789", 1157, {"Prev", "print"}, {}),
     \* print('P[0] =', Prev[:, :, 0])
     Stmt("02d74789", 1158, {"Prev", "print"}, {}),
     \* _, P_lqr, _ = ct.lqr(sys.A, sys.B, Qx, Qu)
     Stmt("02d74789", 1161, {"Qu", "Qx", "ct", "sys"}, {"P_lqr", "_"}),
     \* print('P_lqr =', P_lqr)
     Stmt("02d74789", 1162, {"P_lqr", "print"}, {}),
     \* -- cell 728f675b
     \* P = sp.interpolate.interp1d(trev, Prev)
     Stmt("728f675b", 1181, {"Prev", "sp", "trev"}, {"P"}),
     \* print('P(0) =', P(0))
     Stmt("728f675b", 1183, {"P", "print"}, {}),
     \* print('P(3.5) =', P(3.5))
     Stmt("728f675b", 1184, {"P", "print"}, {}),
     \* print('P(4) =', P(4))
     Stmt("728f675b", 1185, {"P", "print"}, {}),
     \* -- cell 84092dcd
     \* def xdot_forward(t, x):
     DefStmt("84092dcd", 1204, "xdot_forward", {},
          {"P", "Qu", "np", "sys"},
          {}),
     \* xsol = sp.integrate.solve_ivp(xdot_forward, (0, Tf), x0)
     Stmt("84092dcd", 1209, {"Tf", "sp", "x0", "xdot_forward"}, {"xsol"}),
     \* tvec = xsol.t
     Stmt("84092dcd", 1210, {"xsol"}, {"tvec"}),
     \* x = xsol.y
     Stmt("84092dcd", 1211, {"xsol"}, {"x"}),
     \* print('x[0] =', x[:, 0])
     Stmt("84092dcd", 1212, {"print", "x"}, {}),
     \* print('x[Tf] =', x[:, -1])
     Stmt("84092dcd", 1213, {"print", "x"}, {}),
     \* -- cell 8488acad
     \* xd = x
     Stmt("8488acad", 1224, {"x"}, {"xd"}),
     \* ud = np.zeros((sys.ninputs, tvec.size))
     Stmt("8488acad", 1225, {"np", "sys", "tvec"}, {"ud"}),
     \* for i, t in enumerate(tvec):
     Stmt("8488acad", 1226, {"P", "Qu", "enumerate", "np", "sys", "tvec", "ud", "x"},
          {"i", "t"}),
     \* plot_lanechange(tvec, xd, ud)
     Stmt("8488acad", 1229, {"plot_lanechange", "tvec", "ud", "xd"}, {})
    >>

\* Variant of Cell_902af902: without 'from math import sqrt, exp'
Cell_902af902_NoMathImport ==
    <<
     \* import numpy as np
     Stmt("902af902", 1283, {}, {"np"}),
     \* import scipy as sp
     Stmt("902af902", 1284, {}, {"sp"}),
     \* import matplotlib.pyplot as plt
     Stmt("902af902", 1285, {}, {"plt"}),
     \* import control as ct
     Stmt("902af902", 1286, {}, {"ct"})
    >>

\* stochastic, cell 902af902: the statements of the cell
Cell_902af902 ==
    <<
     \* import numpy as np
     Stmt("902af902", 1283, {}, {"np"}),
     \* import scipy as sp
     Stmt("902af902", 1284, {}, {"sp"}),
     \* import matplotlib.pyplot as plt
     Stmt("902af902", 1285, {}, {"plt"}),
     \* import control as ct
     Stmt("902af902", 1286, {}, {"ct"}),
     \* from math import sqrt, exp
     Stmt("902af902", 1287, {}, {"exp", "sqrt"})
    >>

\* stochastic: the statements of cells in order
Cells_stochastic ==
    <<
     \* -- cell 60192a8c
     \* a = 1
     Stmt("60192a8c", 1315, {}, {"a"}),
     \* c = 1
     Stmt("60192a8c", 1316, {}, {"c"}),
     \* sys = ct.tf(c, [1, a])
     Stmt("60192a8c", 1317, {"a", "c", "ct"}, {"sys"}),
     \* Tf = 5
     Stmt("60192a8c", 1320, {}, {"Tf"}),
     \* T = np.linspace(0, Tf, 1000)
     Stmt("60192a8c", 1321, {"Tf", "np"}, {"T"}),
     \* dt = T[1] - T[0]
     Stmt("60192a8c", 1322, {"T"}, {"dt"}),
     \* Q = np.array([[0.1]])
     Stmt("60192a8c", 1326, {"np"}, {"Q"}),
     \* V = ct.white_noise(T, Q)
     Stmt("60192a8c", 1328, {"Q", "T", "ct"}, {"V"}),
     \* plt.plot(T, V[0])
     Stmt("60192a8c", 1330, {"T", "V", "plt"}, {}),
     \* plt.xlabel('Time [s]')
     Stmt("60192a8c", 1331, {"plt"}, {}),
     \* plt.ylabel('$V$')
     Stmt("60192a8c", 1332, {"plt"}, {}),
     \* -- cell 23319dc6
     \* print('mean(V) [0.0] = ', np.mean(V))
     Stmt("23319dc6", 1351, {"V", "np", "print"}, {}),
     \* print('cov(V) * dt [%0.3g] = ' % Q, np.round(np.cov(V), deci
     Stmt("23319dc6", 1352, {"Q", "V", "dt", "np", "print"}, {}),
     \* -- cell 2bdaaccf
     \* T, Y = ct.forced_response(sys, T, V)
     Stmt("2bdaaccf", 1364, {"T", "V", "ct", "sys"}, {"T", "Y"}),
     \* plt.plot(T, Y)
     Stmt("2bdaaccf", 1365, {"T", "Y", "plt"}, {}),
     \* plt.xlabel('Time [s]')
     Stmt("2bdaaccf", 1366, {"plt"}, {}),
     \* plt.ylabel('$Y$')
     Stmt("2bdaaccf", 1367, {"plt"}, {}),
     \* -- cell d31ce324
     \* def r(tau):
     DefStmt("d31ce324", 1388, "r", {},
          {"Q", "a", "c", "exp"},
          {}),
     \* print('* mean(Y) [%0.3g] = %0.3g' % (0, np.mean(Y).item()))
     Stmt("d31ce324", 1391, {"Y", "np", "print"}, {}),
     \* print('* cov(Y) [%0.3g] = %0.3g' % (r(0).item(), np.cov(Y).i
     Stmt("d31ce324", 1392, {"Y", "np", "print", "r"}, {}),
     \* -- cell 1cf5a4b1
     \* tau, r_V = ct.correlation(T, V)
     Stmt("1cf5a4b1", 1406, {"T", "V", "ct"}, {"r_V", "tau"}),
     \* plt.plot(tau, r_V, 'r-')
     Stmt("1cf5a4b1", 1408, {"plt", "r_V", "tau"}, {}),
     \* plt.xlabel('$\\tau$')
     Stmt("1cf5a4b1", 1409, {"plt"}, {}),
     \* plt.ylabel('$r_V(\\tau)$')
     Stmt("1cf5a4b1", 1410, {"plt"}, {}),
     \* -- cell 62af90a4
     \* tau, r_Y = ct.correlation(T, Y)
     Stmt("62af90a4", 1423, {"T", "Y", "ct"}, {"r_Y", "tau"}),
     \* plt.plot(tau, r_Y)
     Stmt("62af90a4", 1424, {"plt", "r_Y", "tau"}, {}),
     \* plt.xlabel('$\\tau$')
     Stmt("62af90a4", 1425, {"plt"}, {}),
     \* plt.ylabel('$r_Y(\\tau)$')
     Stmt("62af90a4", 1426, {"plt"}, {}),
     \* plt.plot(tau, [r(t)[0, 0] for t in tau], 'k--')
     Stmt("62af90a4", 1429, {"plt", "r", "tau"}, {"t"}),
     \* -- cell bd5dfc75
     \* r_avg = np.zeros_like(r_Y)
     Stmt("bd5dfc75", 1450, {"np", "r_Y"}, {"r_avg"}),
     \* for i in range(100):
     Stmt("bd5dfc75", 1451, {"Q", "T", "ct", "range", "sys"},
          {"V", "Y", "_", "i", "r_Y", "r_avg", "tau"}),
     \* r_avg = r_avg / i
     Stmt("bd5dfc75", 1456, {"i", "r_avg"}, {"r_avg"}),
     \* plt.plot(tau, r_avg)
     Stmt("bd5dfc75", 1457, {"plt", "r_avg", "tau"}, {}),
     \* plt.xlabel('$\\tau$')
     Stmt("bd5dfc75", 1458, {"plt"}, {}),
     \* plt.ylabel('$r_Y(\\tau)$')
     Stmt("bd5dfc75", 1459, {"plt"}, {}),
     \* plt.plot(tau, [r(t)[0, 0] for t in tau], 'k--')
     Stmt("bd5dfc75", 1462, {"plt", "r", "tau"}, {"t"}),
     \* -- cell 8df16a23
     \* sigma_z = 1
     Stmt("8df16a23", 1509, {}, {"sigma_z"}),
     \* T = 1
     Stmt("8df16a23", 1510, {}, {"T"}),
     \* filter = ct.ss([[0, 1], [-1 / T ** 2, -2 / T]], [[0], [1]], 
     Stmt("8df16a23", 1511, {"T", "ct", "sqrt"}, {"filter"}),
     \* timepts = np.linspace(0, 10, 1000)
     Stmt("8df16a23", 1513, {"np"}, {"timepts"}),
     \* V = ct.white_noise(timepts, sigma_z ** 2)
     Stmt("8df16a23", 1514, {"ct", "sigma_z", "timepts"}, {"V"}),
     \* resp = ct.input_output_response(filter, timepts, V)
     Stmt("8df16a23", 1515, {"V", "ct", "filter", "timepts"}, {"resp"}),
     \* plt.plot(resp.time, resp.outputs)
     Stmt("8df16a23", 1517, {"plt", "resp"}, {}),
     \* -- cell febc8b80
     \* tau, R = ct.correlation(resp.time, resp.outputs)
     Stmt("febc8b80", 1536, {"ct", "resp"}, {"R", "tau"}),
     \* def dryden_corrfcn(tau, sigma_z=1, T=1):
     DefStmt("febc8b80", 1539, "dryden_corrfcn", {},
          {"np"},
          {}),
     \* fig, axs = plt.subplots(1, 2)
     Stmt("febc8b80", 1543, {"plt"}, {"axs", "fig"}),
     \* axs[0].plot(tau, R)
     Stmt("febc8b80", 1544, {"R", "axs", "tau"}, {}),
     \* axs[0].plot(tau, dryden_corrfcn(tau))
     Stmt("febc8b80", 1545, {"axs", "dryden_corrfcn", "tau"}, {}),
     \* axs[0].set_xlabel('$\\tau$')
     Stmt("febc8b80", 1546, {"axs"}, {}),
     \* axs[0].set_ylabel('$r(\\tau)$')
     Stmt("febc8b80", 1547, {"axs"}, {}),
     \* axs[0].set_title('Correlation function')
     Stmt("febc8b80", 1548, {"axs"}, {}),
     \* dt = timepts[1] - timepts[0]
     Stmt("febc8b80", 1551, {"timepts"}, {"dt"}),
     \* S = sp.fft.rfft(R) * dt * 2
     Stmt("febc8b80", 1552, {"R", "dt", "sp"}, {"S"}),
     \* omega = sp.fft.rfftfreq(R.size, dt)
     Stmt("febc8b80", 1553, {"R", "dt", "sp"}, {"omega"}),
     \* def dryden_psd(omega, sigma_z=1.0, T=1.0):
     DefStmt("febc8b80", 1556, "dryden_psd", {},
          {},
          {}),
     \* axs[1].loglog(omega[1:], np.abs(S[1:]))
     Stmt("febc8b80", 1560, {"S", "axs", "np", "omega"}, {}),
     \* axs[1].loglog(omega[1:], dryden_psd(omega[1:]))
     Stmt("febc8b80", 1561, {"axs", "dryden_psd", "omega"}, {}),
     \* axs[1].set_xlabel('$\\omega$ [rad/sec]')
     Stmt("febc8b80", 1562, {"axs"}, {}),
     \* axs[1].set_ylabel('$S(\\omega)$')
     Stmt("febc8b80", 1563, {"axs"}, {}),
     \* axs[1].set_title('Power spectral density')
     Stmt("febc8b80", 1564, {"axs"}, {}),
     \* plt.tight_layout()
     Stmt("febc8b80", 1566, {"plt"}, {})
    >>

\* invpend: the statements of cells in order
Cells_invpend ==
    <<
     \* -- cell cell1
     \* import numpy as np
     Stmt("cell1", 27, {}, {"np"}),
     \* import matplotlib.pyplot as plt
     Stmt("cell1", 28, {}, {"plt"}),
     \* from math import pi
     Stmt("cell1", 29, {}, {"pi"}),
     \* try:
     CtlStmt("cell1", 30, {"ImportError", "print"},
          {"ct"},
          {"except", "try"}),
     \* -- cell cell2
     \* invpend_params = {'m': 1, 'l': 1, 'b': 0.5, 'g': 1}
     Stmt("cell2", 81, {}, {"invpend_params"}),
     \* def invpend_update(t, x, u, params):
     DefStmt("cell2", 82, "invpend_update", {},
          {"np"},
          {}),
     \* invpend = ct.nlsys(invpend_update, states=['theta', 'thdot']
     Stmt("cell2", 87, {"ct", "invpend_params", "invpend_update"},
          {"invpend"}),
     \* print(invpend)
     Stmt("cell2", 91, {"invpend", "print"}, {}),
     \* -- cell cell3
     \* (ct.phase_plane_plot(invpend, [-2 * pi - 1, 2 * pi + 1, -2, 
     Stmt("cell3", 118, {"ct", "invpend", "pi"}, {}),
     \* plt.plot([-pi, -pi], [-2, 2], 'k--')
     Stmt("cell3", 122, {"pi", "plt"}, {}),
     \* plt.plot([pi, pi], [-2, 2], 'k--')
     Stmt("cell3", 123, {"pi", "plt"}, {}),
     \* -- cell cell4
     \* def propctrl_output(t, x, u, params):
     DefStmt("cell4", 159, "propctrl_output", {},
          {},
          {}),
     \* propctrl = ct.nlsys(None, propctrl_output, name='p_ctrl', in
     Stmt("cell4", 162, {"ct", "propctrl_output"}, {"propctrl"}),
     \* print(propctrl)
     Stmt("cell4", 166, {"print", "propctrl"}, {}),
     \* -- cell cell5
     \* clsys = ct.interconnect([invpend, propctrl], name='invpend w
     Stmt("cell5", 187, {"ct", "invpend", "propctrl"}, {"clsys"}),
     \* print(clsys)
     Stmt("cell5", 190, {"clsys", "print"}, {}),
     \* -- cell cell6
     \* for kp in [0, 1, 10]:
     Stmt("cell6", 216, {"clsys", "print"}, {"kp"}),
     \* -- cell cell7
     \* ct.phase_plane_plot(clsys, [-2 * pi, 2 * pi, -2, 2], 8, para
     Stmt("cell7", 246, {"clsys", "ct", "pi"}, {}),
     \* -- cell cell8
     \* kp_params = {'kp': 10}
     Stmt("cell8", 282, {}, {"kp_params"}),
     \* ct.phase_plane_plot(clsys, [-1.5 * pi, 1.5 * pi, -2, 2], 8, 
     Stmt("cell8", 283, {"clsys", "ct", "kp_params", "pi"}, {}),
     \* plt.plot([-pi, -pi], [-2, 2], 'k--', [pi, pi], [-2, 2], 'k--
     Stmt("cell8", 287, {"pi", "plt"}, {}),
     \* plt.plot([-pi / 2, -pi / 2], [-2, 2], 'k:', [pi / 2, pi / 2]
     Stmt("cell8", 288, {"pi", "plt"}, {}),
     \* -- cell cell9
     \* fig, axs = plt.subplots(2, 2)
     Stmt("cell9", 298, {"plt"}, {"axs", "fig"}),
     \* for i, kp in enumerate([3, 10]):
     Stmt("cell9", 299, {"axs", "clsys", "ct", "enumerate", "pi"},
          {"i", "j", "kp", "umax"}),
     \* plt.tight_layout()
     Stmt("cell9", 306, {"plt"}, {}),
     \* -- cell cell10
     \* P = invpend.linearize([0, 0], [0])
     Stmt("cell10", 337, {"invpend"}, {"P"}),
     \* K = ct.place(P.A, P.B, [-1 + 0.1j, -1 - 0.1j])
     Stmt("cell10", 340, {"P", "ct"}, {"K"}),
     \* print(f'K={K!r}')
     Stmt("cell10", 341, {"K", "print"}, {}),
     \* -- cell cell11
     \* def statefbk_output(t, x, u, params):
     DefStmt("cell11", 350, "statefbk_output", {},
          {"np"},
          {}),
     \* statefbk = ct.nlsys(None, statefbk_output, name='k_ctrl', in
     Stmt("cell11", 353, {"ct", "statefbk_output"}, {"statefbk"}),
     \* print(statefbk)
     Stmt("cell11", 357, {"print", "statefbk"}, {}),
     \* -- cell cell12
     \* clsys_sf = ct.interconnect([invpend, statefbk], name='invpen
     Stmt("cell12", 366, {"ct", "invpend", "statefbk"}, {"clsys_sf"}),
     \* print(clsys_sf)
     Stmt("cell12", 369, {"clsys_sf", "print"}, {}),
     \* -- cell cell13
     \* ct.phase_plane_plot(clsys_sf, [-1.5 * pi, 1.5 * pi, -2, 2], 
     Stmt("cell13", 387, {"K", "clsys_sf", "ct", "pi"}, {}),
     \* plt.plot([-pi, -pi], [-2, 2], 'k--', [pi, pi], [-2, 2], 'k--
     Stmt("cell13", 390, {"pi", "plt"}, {}),
     \* plt.plot([-pi / 2, -pi / 2], [-2, 2], 'k:', [pi / 2, pi / 2]
     Stmt("cell13", 391, {"pi", "plt"}, {})
    >>

\* The statements of a notebook in document order
Statements(n) ==
    CASE n = "lqr_tracking" ->
            Cells_lqr_tracking
      [] n = "frequency" ->
            Cells_frequency_1 \o
            Cell_senior_carpet \o
            Cells_frequency_2
      [] n = "lq_optimal" ->
            Cells_lq_optimal_1 \o
            Cell_fbdd78c0 \o
            Cells_lq_optimal_2
      [] n = "stochastic" ->
            Cell_902af902 \o
            Cells_stochastic
      [] n = "invpend" ->
            Cells_invpend

\* Before the first statement: nothing is bound
StmtInit ==
    /\ ip = 0
    /\ env = [bound |-> {}, defs |-> <<>>]
    /\ unbound = {}
    /\ assigned = {}
    /\ control = {}

\* The names a statement needs bound: the names it reads and, through the
\* notebook functions it reads, the global names their bodies read
RECURSIVE Needs(_, _, _)
Needs(names, defs, n) ==
    LET more == names \cup UNION {defs[f] : f \in names \cap DOMAIN defs}
    IN  IF n = 0 \/ more = names THEN names ELSE Needs(more, defs, n - 1)

\* The next statement of the notebook runs: a name that is neither bound
\* nor a builtin raises NameError and stops the run
RunStatement ==
    /\ ip < Len(Statements(nb))
    /\ unbound = {}
    /\ LET st == Statements(nb)[ip + 1]
       IN  /\ unbound' = Needs(st.reads, env.defs, Cardinality(DOMAIN env.defs))
                           \ (env.bound \cup Builtins)
           /\ env' = [bound |-> env.bound \cup st.binds,
                      defs  |-> IF st.def
                                THEN [f \in st.binds |-> st.body] @@ env.defs
                                ELSE env.defs]
           /\ assigned' = assigned \cup {<<st.cell, a[1], a[2]>> : a \in st.attrs}
           /\ control' = control \cup {<<st.cell, k>> : k \in st.ctl}
    /\ ip' = ip + 1
    /\ UNCHANGED <<nb, pc, lqrVars, pendVars, freqVars, stochVars>>

\* The first cell to run of each notebook
FirstCell == [lqr_tracking |-> "design", invpend |-> "model",
              lq_optimal |-> "linearize", stochastic |-> "first_order",
              frequency |-> "servomech"]

Init ==
    /\ nb \in DOMAIN FirstCell
    /\ pc = FirstCell[nb]
    /\ LqrInit
    /\ PendInit
    /\ FreqInit
    /\ StochInit
    /\ StmtInit

Next == LqrNext \/ PendNext \/ FreqNext \/ LqNext \/ StochNext

Spec == Init /\ [][Next]_vars

\* Each notebook run statement by statement
NotebookSpec == Init /\ [][RunStatement]_vars

(***************************************************************************)
(* Claims, LQR tracking notebook                                           *)
(***************************************************************************)

\* C1: with integral feedback (sys_integral driven by the constant input
\* [xd, ud + delta]) every equilibrium has x[0] = xd[0], whatever the
\* constant disturbance delta is.
C1_IntegralNoSteadyStateError ==
    (simsys = "sys_integral" /\ AtEquilibrium) => x[1] = xd[1]

\* An equilibrium of sys_integral under a nonzero disturbance
C1_Witness ==
    simsys = "sys_integral" /\ AtEquilibrium /\ delta # 0 /\ z # 0

\* C2: with the baseline controller the equilibrium of clsys under a
\* constant disturbance delta satisfies x[0] - xd[0] = delta / (1 + K[0,0]):
\* a steady state error when delta # 0, none when delta = 0.
C2_BaselineSteadyStateError ==
    (simsys = "clsys" /\ AtEquilibrium) =>
        /\ (S + K[1]) * (x[1] - xd[1]) = S * delta
        /\ (delta # 0 => x[1] # xd[1])
        /\ (delta = 0 => x[1] = xd[1])

\* An equilibrium of clsys under a nonzero disturbance
C2_Witness ==
    simsys = "clsys" /\ AtEquilibrium /\ delta # 0 /\ x[1] # xd[1]

\* C3: (x0, u0) is an equilibrium point of sys: A x0 + B u0 = 0, so the
\* undisturbed simulation started there has zero derivative.
C3_DesiredPointIsEquilibrium ==
    /\ LinUpdate(sys_A, sys_B, x0, u0) = <<0, 0>>
    /\ (simsys = "clsys" /\ delta = 0 /\ xdot # <<>> /\ x = x0)
          => xdot = <<0, 0>>

\* The undisturbed closed loop evaluated at x0
C3_Witness ==
    simsys = "clsys" /\ delta = 0 /\ xdot # <<>> /\ x = x0

(***************************************************************************)
(* Claims, inverted pendulum notebook                                      *)
(***************************************************************************)

\* C5: the closed loop clsys linearized at state [0, 0], input r = 0 with
\* kp = 10 has both poles in the open left half plane.
C5_Kp10Stabilizes ==
    (nb = "invpend" /\ pc \in {"kp1", "kp2", "kp3"} /\ kp = 10 * S)
        => LHPCount(CharPoly(lin)) = 2

\* The loop iteration with kp = 10 has run
C5_Witness == nb = "invpend" /\ pc = "kp3" /\ kp = 10 * S /\ lin # <<>>

\* C6: open loop (tau = 0), the linearization of invpend_update at the
\* vertical equilibrium theta = 0 is unstable and at the downward
\* equilibria theta = +pi and theta = -pi it is stable.
C6_OpenLoopEquilibria ==
    (nb = "invpend" /\ pc = "openloop") =>
        /\ (eqpt = <<0, 0>> => RHPCount(CharPoly(lin)) >= 1)
        /\ (eqpt \in {<<2, 0>>, <<-2, 0>>} => LHPCount(CharPoly(lin)) = 2)

\* The open loop system has been linearized at theta = -pi
C6_Witness == nb = "invpend" /\ pc = "openloop" /\ eqpt = <<-2, 0>>

\* The dynamics written in the notebook at the evaluated state and input
WrittenAtEval ==
    LET f == written_dynamics(SeedX(out.x, 0), SeedU(out.u, 0), invpend_params)
    IN  <<ToReal(f[1]).v, ToReal(f[2]).v>>

\* C11: invpend_update returns the dynamics written in the notebook,
\* d(theta)/dt = thdot and d(thdot)/dt = (m g l / Jt) sin(theta)
\* - (b / Jt) thdot + (l / Jt) u cos(theta), at every state and input.
C11_UpdateIsWrittenDynamics ==
    (nb = "invpend" /\ out # <<>>) => out.dx = WrittenAtEval

\* What invpend_update does: it agrees with the written dynamics when the
\* input is zero
C11_AgreesAtZeroInput ==
    (nb = "invpend" /\ out # <<>> /\ out.u = <<0>>) => out.dx = WrittenAtEval

\* An evaluation with zero input away from the equilibria
C11_Witness ==
    /\ nb = "invpend" /\ out # <<>>
    /\ out.u = <<0>> /\ out.x = <<Theta(1, S \div 2), S>>

\* A scalar parameter value: np.shape(v) = ()
IsScalar(shape) == shape = <<>>

C7_PendulumNyquist ==
    (nb = "frequency" /\ pc = "nyquist_pend") =>
        /\ out.P = 1
        /\ out.Z = 0
        /\ out.N = -1
        /\ out.Z = out.N + out.P
        /\ LHPCount(ws["T"].den) = Degree(ws["T"].den)
        /\ RHPCount(ws["P"].den) = 1

\* The Nyquist check of the inverted pendulum loop has been printed
C7_Witness ==
    /\ nb = "frequency" /\ pc = "nyquist_pend"
    /\ ws["L"] = [num |-> <<20, 100>>, den |-> <<10, 1, -10>>]

\* C8: servomechanism, first design (PI controller kp = 1, ki = 1): L has
\* no right half plane pole and 1 + L has at least one zero with positive
\* real part, Z = N + P > 0: the closed loop is unstable.
C8_FirstDesignUnstable ==
    (nb = "frequency" /\ pc = "nyquist") =>
        /\ out.P = 0
        /\ out.Z > 0
        /\ out.Z = out.N + out.P
        /\ RHPCount(ws["T"].den) > 0

\* The Nyquist analysis of the first servomechanism design has been printed
C8_Witness ==
    /\ nb = "frequency" /\ pc = "nyquist"
    /\ ws["C"] = [num |-> <<1, 1>>, den |-> <<1, 0>>]
    /\ Degree(ws["L"].den) = 3

\* C9: servomechanism, second design Cnew = kp + (ki/200)/s: Lnew has no
\* encirclements of -1 and all zeros of 1 + Lnew (the poles of
\* Tnew = feedback(Lnew)) have negative real part.
C9_SecondDesignStable ==
    (nb = "frequency" /\ pc = "tnew") =>
        /\ out.N = 0
        /\ LHPCount(ws["Tnew"].den) = Degree(ws["Tnew"].den)
        /\ ws["Tnew"].den = PolyAdd(ws["Lnew"].num, ws["Lnew"].den)

\* The closed loop of the second design has been formed
C9_Witness ==
    /\ nb = "frequency" /\ pc = "tnew"
    /\ ws["Cnew"] = [num |-> <<200, 1>>, den |-> <<200, 0>>]
    /\ Degree(ws["Tnew"].den) = 3

(***************************************************************************)
(* Linear quadratic optimal control notebook                               *)
(***************************************************************************)

\* Column j of Psol.y as a matrix
Sample(j) == Reshape([r \in 1..Len(ws["Psol"].y) |-> ws["Psol"].y[r][j]],
                     ws["sys"].nstates)

\* C4: after the reordering trev is increasing from trev[0] = 0 to
\* trev[-1] = Tf, Prev[:, :, -1] equals Pf, and every Prev[:, :, k] is the
\* sample the integrator returned for the reversed time Tf - trev[k].
C4_RiccatiReversed ==
    (nb = "lq_optimal" /\ pc = "reordered") =>
        LET trev == ws["trev"]
            Prev == ws["Prev"]
            n    == Len(trev)
        IN  /\ \A k \in 1..(n - 1) : trev[k] < trev[k + 1]
            /\ trev[1] = 0 /\ trev[n] = ws["Tf"]
            /\ Len(Prev[1][1]) = n
            /\ Slice(Prev, n) = ws["Pf"]
            /\ \A k \in 1..n :
                 \E j \in 1..n : /\ ws["Psol"].t[j] = ws["Tf"] - trev[k]
                                 /\ Slice(Prev, k) = Sample(j)

\* A reordered solution with interior samples whose value at t = 0 differs
\* from the terminal condition
C4_Witness ==
    /\ nb = "lq_optimal" /\ pc = "reordered"
    /\ Len(ws["trev"]) >= 3
    /\ Slice(ws["Prev"], 1) # ws["Pf"]
    /\ Slice(ws["Prev"], 1) # Slice(ws["Prev"], 2)

(***************************************************************************)
(* Stochastic response notebook                                            *)
(***************************************************************************)

\* C10: after the averaging loop r_avg is the sum of the NumRuns = 100
\* correlation functions r_Y computed inside the loop divided by 100; the
\* r_Y computed before the loop is not part of the sum.
C10_AverageOfRuns ==
    (nb = "stochastic" /\ pc = "averaged") =>
        /\ hist.n = NumRuns
        /\ \A j \in 1..Len(hist.sum) :
             ws["r_avg"].num[j] * NumRuns = hist.sum[j] * ws["r_avg"].den

\* What the cell computes: the sum of the NumRuns in-loop correlation
\* functions divided by the last value of the loop variable, NumRuns - 1
C10_DividedByLastIndex ==
    (nb = "stochastic" /\ pc = "averaged") =>
        /\ hist.n = NumRuns
        /\ ws["r_avg"].num = hist.sum
        /\ ws["r_avg"].den = NumRuns - 1

\* The averaging cell has finished with a nonzero sum
C10_Witness ==
    /\ nb = "stochastic" /\ pc = "averaged"
    /\ \E j \in 1..Len(hist.sum) : hist.sum[j] # 0

(***************************************************************************)
(* Claims, lengths of the sampled arrays                                   *)
(***************************************************************************)

\* C16: sampled-array bundles keep equal lengths.  In the stochastic
\* notebook tau and R of the Dryden response have the same length, S and
\* omega both have length R.size // 2 + 1, so that S[1:] and omega[1:] plot
\* one to one.  In the LQR tracking notebook U has one column per element
\* of tvec and n + m = 3 rows ordered [xd, ud]; the disturbance changes
\* only the ud row, and every column is the input the simulation reads.
C16_SampledArraysSameLength ==
    /\ (nb = "stochastic" /\ pc = "psd") =>
          /\ Len(ws["tau"]) = Len(ws["R"])
          /\ Len(ws["S"]) = Len(ws["R"]) \div 2 + 1
          /\ Len(ws["omega"]) = Len(ws["R"]) \div 2 + 1
          /\ Len(out.x) = Len(out.y)
    /\ (nb = "lqr_tracking" /\ pc \in {"baseline", "disturbance", "integral"}) =>
          /\ Len(ws["U"]) = Len(xd) + 1
          /\ Len(ws["U"]) = 3
          /\ \A i \in 1..3 : Len(ws["U"][i]) = Len(ws["tvec"])
          /\ \A j \in 1..Len(ws["tvec"]) :
                /\ ws["U"][1][j] = xd[1]
                /\ ws["U"][2][j] = xd[2]
                /\ ws["U"][3][j] = ud + delta
                /\ <<ws["U"][1][j], ws["U"][2][j], ws["U"][3][j]>> = U

\* The power spectral density of a Dryden response has been computed from
\* a correlation function on 2 TimeLen - 1 lags and is not identically zero
C16_Witness ==
    /\ nb = "stochastic" /\ pc = "psd"
    /\ Len(ws["R"]) = 2 * TimeLen - 1
    /\ Len(out.x) = TimeLen - 1
    /\ \E k \in 1..Len(out.y) : out.y[k].re # 0 /\ out.y[k].im # 0

(***************************************************************************)
(* Claims, notebooks statement by statement                                *)
(***************************************************************************)

\* The cells that contain control constructs, with the constructs: the
\* import cells of the frequency and inverted pendulum notebooks (try /
\* except ImportError), _kincar_flat_reverse (if / elif / else, raise
\* ValueError) and plot_lanechange (if)
BranchingCells ==
    {<<"invalid-carnival", "try">>, <<"invalid-carnival", "except">>,
     <<"cell1", "try">>, <<"cell1", "except">>,
     <<"48c1bd7f-0db6-4488-af41-41f685280ec9", "if">>,
     <<"48c1bd7f-0db6-4488-af41-41f685280ec9", "raise">>,
     <<"fbdd78c0-30e9-43f7-9e8d-198ae38c2988", "if">>}

C13_NoAttributeAssigned == assigned = {}

\* C13: the only attribute of an LTI object assigned after construction is
\* its name (P.name, L.name, Cnew.name, Lnew.name in the frequency domain
\* notebook); the matrices and polynomials are never assigned.
C13_OnlyNameAssigned ==
    /\ \A a \in assigned : a[3] = "name"
    /\ nb # "frequency" => assigned = {}
    /\ assigned \subseteq {<<"senior-carpet", "P", "name">>,
                           <<"hjQS_dED7yJE", "L", "name">>,
                           <<"vhKi_L-F_6Ws", "Cnew", "name">>,
                           <<"vhKi_L-F_6Ws", "Lnew", "name">>}

\* The frequency domain notebook has run to its end: four names assigned
C13_Witness ==
    /\ nb = "frequency" /\ ip = Len(Statements(nb))
    /\ Cardinality(assigned) = 4

====
